---- MODULE Spec2Model ----
(***************************************************************************)
(* A model of data-docs-api: the Express handlers of                       *)
(* src/src/controllers/document/documentBase.ts, the validation            *)
(* middleware (src/src/middlewares/validation.ts with the Joi schemas of   *)
(* src/src/schemas/documentSchema.ts) and the Cassandra gateway of         *)
(* src/src/dbManager/cassandraClient.ts.                                   *)
(*                                                                         *)
(* The Cassandra cluster itself is outside the repository.  It is modelled *)
(* as a table keyed by id_document whose statements are atomic, may fail   *)
(* (the driver rejects the promise), and whose SELECTs return rows in a    *)
(* fixed order (ascending key) one page of fetchSize rows at a time.       *)
(* The rate limiter in front of every route is left out.                   *)
(***************************************************************************)
EXTENDS Integers, Sequences, FiniteSets, TLC

\* ------------------------------------------------------------------ bounds
\* Longest document / id / value list of one request.
MaxBatch == 3
\* Most conversions applied in a row to one document.
MaxSteps == 3
\* Most keys of the updates object of one updateDocument call.
MaxKeys == 3

\* ------------------------------------------------------- program constants
\* fetchSize of a single-value search when the caller gives no pageSize.
DefaultFetchSize == 100
\* fetchSize of every per-value query of a batch search.
BatchFetchSize == 1000
\* Joi: at most 50 values in idAssets / txHashes.
MaxSearchValues == 50
\* Joi: pageSize is at most 1000.
MaxPageSize == 1000

\* ------------------------------------------------------------------ values
\* A JavaScript value.  t is its kind, s its text (strings, numbers, dates,
\* opaque objects), a its elements (arrays).  "jsonstring" is a string whose
\* text is the JSON token sequence a: typeof gives "string".
Null == [t |-> "null", s |-> "", a |-> <<>>]
Str(x) == [t |-> "string", s |-> x, a |-> <<>>]
Num(x) == [t |-> "number", s |-> x, a |-> <<>>]
Obj(x) == [t |-> "object", s |-> x, a |-> <<>>]
Arr(q) == [t |-> "array", s |-> "", a |-> q]

IsString(v) == v.t \in {"string", "jsonstring"}
IsArray(v) == v.t = "array"
\* JavaScript truthiness: null, "", 0 are falsy; arrays and objects are truthy.
Truthy(v) ==
  /\ v.t # "null"
  /\ ~(v.t = "string" /\ v.s = "")
  /\ ~(v.t = "number" /\ v.s = "0")

\* JSON text is a sequence of tokens: the brackets and commas of an array and
\* one literal per scalar, string or object (the literal of a string is the
\* string in quotes: it is not the string).
Punct(x) == [t |-> "punct", s |-> x, a |-> <<>>]
Lit(v) == [t |-> "literal", s |-> "", a |-> <<v>>]
JSONtext(q) == [t |-> "jsonstring", s |-> "", a |-> q]
\* JSON.stringify: "[" literal "," literal ... "]" for an array, the literal
\* of any other value.
JSONstringify(v) ==
  IF v.t = "array"
  THEN JSONtext(<<Punct("[")>>
                \o [n \in 1..(2 * Len(v.a) - 1) |->
                     IF n % 2 = 1 THEN Lit(v.a[(n + 1) \div 2]) ELSE Punct(",")]
                \o <<Punct("]")>>)
  ELSE JSONtext(<<Lit(v)>>)
\* The grammar JSON.parse accepts: one literal, or a bracketed list of
\* literals separated by commas.
WellFormed(q) ==
  \/ Len(q) = 1 /\ q[1].t = "literal"
  \/ /\ Len(q) >= 2
     /\ q[1] = Punct("[")
     /\ q[Len(q)] = Punct("]")
     /\ Len(q) = 2 \/ Len(q) % 2 = 1
     /\ \A n \in 2..(Len(q) - 1) :
          IF n % 2 = 0 THEN q[n].t = "literal" ELSE q[n] = Punct(",")
\* JSON.parse throws on text that is not JSON.
JSONparseThrows(v) == v.t = "string" \/ ~WellFormed(v.a)
\* What JSON.parse gives; the SyntaxError it throws is the value Thrown.
Thrown == [t |-> "thrown", s |-> "SyntaxError", a |-> <<>>]
JSONparse(v) ==
  IF JSONparseThrows(v) THEN Thrown
  ELSE IF Len(v.a) = 1 THEN v.a[1].a[1]
  ELSE Arr([n \in 1..((Len(v.a) - 1) \div 2) |-> v.a[2 * n].a[1]])
\* new Date(isoString)
NewDate(v) == [t |-> "date", s |-> v.s, a |-> <<>>]
\* String(item)
StringOf(v) ==
  CASE v.t = "array" -> Str("joined")
    [] v.t = "object" -> Str("[object Object]")
    [] v.t = "null" -> Str("null")
    [] OTHER -> Str(v.s)

\* A JavaScript object: a function from its own keys to values.
Has(o, k) == k \in DOMAIN o
Get(o, k) == IF k \in DOMAIN o THEN o[k] ELSE Null
Put(o, k, v) == [x \in DOMAIN o \cup {k} |-> IF x = k THEN v ELSE o[x]]
Range(q) == {q[n] : n \in 1..Len(q)}

\* ------------------------------------------------------------- field names
\* The document fields of documentSchema that the model carries.  The
\* remaining plain-text fields (operation, processId, natureId, stageId,
\* channelName, idOwner, ...) are treated exactly like owner.
DocFields ==
  {"idDocument", "idAsset", "assetIdBlockchain", "owner", "status", "txStatus",
   "amount", "idLocal", "idExternal", "data", "dataHash", "groupedBy",
   "groupedAssets", "txHash", "blockNumber", "timestamp", "createdAt"}

\* UnderscoreCqlToCamelCaseMappings: the column of a document property.
ColumnOf(f) ==
  CASE f = "idDocument" -> "id_document"
    [] f = "idAsset" -> "id_asset"
    [] f = "assetIdBlockchain" -> "asset_id_blockchain"
    [] f = "txStatus" -> "tx_status"
    [] f = "idLocal" -> "id_local"
    [] f = "idExternal" -> "id_external"
    [] f = "dataHash" -> "data_hash"
    [] f = "groupedBy" -> "grouped_by"
    [] f = "groupedAssets" -> "grouped_assets"
    [] f = "txHash" -> "tx_hash"
    [] f = "blockNumber" -> "block_number"
    [] f = "createdAt" -> "created_at"
    [] OTHER -> f

\* The columns of trace_tracker.documents (those of the modelled fields).
Columns == {ColumnOf(f) : f \in DocFields}


\* ---------------------------------------------------------------- drafts
\* Client drafts that pass documentSchema.  DraftA carries the optional
\* blockchain asset id, relationship list and transaction hash; DraftB leaves
\* them out and carries a client-chosen idDocument and createdAt, a status
\* and an amount;
\* DraftC shares the transaction hash of DraftA under another asset.
DraftA ==
  [idAsset |-> Str("A"), assetIdBlockchain |-> Str("A"), owner |-> Str("o1"),
   data |-> Arr(<<Obj("d1")>>), dataHash |-> Str("h1"),
   timestamp |-> Str("2024-01-01T00:00:00Z"),
   groupedBy |-> Arr(<<Str("g1"), Str("g2")>>), txHash |-> Str("T1")]
DraftB ==
  [idDocument |-> Str("client"), idAsset |-> Str("B"), owner |-> Str("o2"),
   data |-> Arr(<<Obj("d2"), Obj("d3")>>), dataHash |-> Str("h2"),
   timestamp |-> Str("2024-02-02T00:00:00Z"),
   status |-> Str("ACTIVE"), amount |-> Num("5"),
   createdAt |-> Str("2020-01-01T00:00:00Z")]
DraftC ==
  [idAsset |-> Str("B"), assetIdBlockchain |-> Str("B"), owner |-> Str("o1"),
   data |-> Arr(<<Obj("d1")>>), dataHash |-> Str("h1"),
   timestamp |-> Str("2024-01-01T00:00:00Z"), txHash |-> Str("T1")]
Drafts == {DraftA, DraftB}

\* ------------------------------------------------------------ field mapper
ListFields == <<"groupedBy", "groupedAssets", "idExternal">>

\* treatDocument: the draft with timestamp as a Date, data as JSON text and
\* each list field as JSON text (null when the draft has none).
treatList(document, f) ==
  IF Truthy(Get(document, f)) THEN JSONstringify(document[f]) ELSE Null
treatDocument(document) ==
  [x \in DOMAIN document \cup {"timestamp", "data", "idExternal", "groupedBy", "groupedAssets"} |->
     CASE x = "timestamp" -> NewDate(Get(document, "timestamp"))
       [] x = "data" -> JSONstringify(Get(document, "data"))
       [] x \in {"idExternal", "groupedBy", "groupedAssets"} -> treatList(document, x)
       [] OTHER -> document[x]]

prepareList_NoParse(v) ==
  LET wrapped == IF IsArray(v) THEN v ELSE Arr(<<v>>)
  IN Arr([n \in 1..Len(wrapped.a) |->
            IF IsString(wrapped.a[n]) THEN wrapped.a[n] ELSE StringOf(wrapped.a[n])])
prepareList_NoCatch(v) ==
  LET parsed == IF IsString(v) THEN JSONparse(v) ELSE v
      wrapped == IF IsArray(parsed) THEN parsed ELSE Arr(<<parsed>>)
  IN IF parsed = Thrown THEN Thrown
     ELSE Arr([n \in 1..Len(wrapped.a) |->
                 IF IsString(wrapped.a[n]) THEN wrapped.a[n] ELSE StringOf(wrapped.a[n])])
\* prepareDocumentForCassandra, one list field: parse a string (wrapping it
\* when it is no JSON), wrap what is no array, coerce every element to string.
prepareList(v) ==
  LET parsed == IF IsString(v)
                THEN (IF JSONparseThrows(v) THEN Arr(<<v>>) ELSE JSONparse(v))
                ELSE v
      wrapped == IF IsArray(parsed) THEN parsed ELSE Arr(<<parsed>>)
  IN Arr([n \in 1..Len(wrapped.a) |->
            IF IsString(wrapped.a[n]) THEN wrapped.a[n] ELSE StringOf(wrapped.a[n])])
prepareData_Restringify(v) ==
  IF Truthy(v) THEN JSONstringify(v) ELSE v
prepareData(v) ==
  IF Truthy(v) /\ ~IsString(v) THEN JSONstringify(v) ELSE v
\* The argument object after the call: the function works on the copy
\* { ...document } and assigns to the copy's members only.
argumentAfter_InPlace(document) ==
  [x \in DOMAIN document |->
     IF x \in Range(ListFields) /\ document[x].t # "null" THEN prepareList(document[x])
     ELSE document[x]]
argumentAfter(document) == document
prepareDocumentForCassandra(document) ==
  [x \in DOMAIN document |->
     IF x \in Range(ListFields) /\ document[x].t # "null" THEN prepareList(document[x])
     ELSE IF x = "data" THEN prepareData(document[x])
     ELSE document[x]]

\* ------------------------------------------------------------- the table
\* The n-th UUID drawn by Uuid.random(), as text.
UuidText(n) == Str(ToString(n))

\* The row the mapper writes for a prepared document: one column per
\* property, every other column unset.
RowOf(prepared) ==
  [c \in Columns |->
     IF \E f \in DOMAIN prepared : ColumnOf(f) = c
     THEN prepared[CHOOSE f \in DOMAIN prepared : ColumnOf(f) = c]
     ELSE Null]

InsertedDoc_KeepDraftId(document, n) ==
  prepareDocumentForCassandra(
    Put(Put(document, "idDocument",
            IF Truthy(Get(document, "idDocument")) THEN document["idDocument"] ELSE UuidText(n)),
        "createdAt", [t |-> "date", s |-> ToString(n), a |-> <<>>]))
\* insertDocument up to the INSERT: the id and creation time are set on the
\* document, whatever the draft carried, and the result is prepared.
InsertedDoc(document, n) ==
  prepareDocumentForCassandra(
    Put(Put(document, "idDocument", UuidText(n)), "createdAt",
        [t |-> "date", s |-> ToString(n), a |-> <<>>]))

InsertRow_PerAsset(st, n, document) ==
  [k \in DOMAIN st \cup {n} |->
     IF k = n \/ st[k]["id_asset"] = Get(document, "idAsset")
     THEN RowOf(InsertedDoc(document, n)) ELSE st[k]]
InsertRow(st, n, document) ==
  [k \in DOMAIN st \cup {n} |-> IF k = n THEN RowOf(InsertedDoc(document, n)) ELSE st[k]]

DeleteRow_ByAsset(st, id) ==
  [k \in {j \in DOMAIN st :
            j # id /\ (id \in DOMAIN st => st[j]["id_asset"] # st[id]["id_asset"])} |-> st[k]]
\* deleteDocument: DELETE ... WHERE id_document = ? (no error when absent).
DeleteRow(st, id) == [k \in DOMAIN st \ {id} |-> st[k]]

\* searchByDocumentId: SELECT * ... WHERE id_document = ?
searchByDocumentId(st, id) == IF id \in DOMAIN st THEN <<st[id]>> ELSE <<>>

\* fieldMapping is an object literal: looking up a key it does not hold
\* gives undefined, except for the members every object inherits from
\* Object.prototype, which are functions (or, for __proto__, the prototype
\* itself) and go into the statement as their text.
InheritedKeys == {"constructor", "toString", "__proto__"}
InheritedText(key) ==
  IF key = "__proto__" THEN "[object Object]" ELSE "function () { [native code] }"
\* updateDocument: the column each key of updates is written to
\* (fieldMapping[key] || key).
fieldMapping(key) ==
  CASE key = "txHash" -> "tx_hash"
    [] key = "blockNumber" -> "block_number"
    [] key = "status" -> "status"
    [] key = "txStatus" -> "tx_status"
    [] key = "amount" -> "amount"
    [] key = "idLocal" -> "id_local"
    [] key = "dataHash" -> "data_hash"
    [] key \in InheritedKeys -> InheritedText(key)
    [] OTHER -> key
UpdatedRow_Overwrite(st, id, updates) ==
  [c \in Columns |->
     IF \E key \in DOMAIN updates : fieldMapping(key) = c
     THEN updates[CHOOSE key \in DOMAIN updates : fieldMapping(key) = c]
     ELSE IF c = "id_document" THEN UuidText(id) ELSE Null]
\* The row after UPDATE ... SET <dbField = ?, ...> WHERE id_document = ?.
\* An UPDATE of a key that holds no row writes a row with only those columns.
UpdatedRow(st, id, updates) ==
  LET old == IF id \in DOMAIN st THEN st[id]
             ELSE [c \in Columns |-> IF c = "id_document" THEN UuidText(id) ELSE Null]
  IN [c \in Columns |->
        IF \E key \in DOMAIN updates : fieldMapping(key) = c
        THEN updates[CHOOSE key \in DOMAIN updates : fieldMapping(key) = c]
        ELSE old[c]]
UpdateRow(st, id, updates) ==
  [k \in DOMAIN st \cup {id} |-> IF k = id THEN UpdatedRow(st, id, updates) ELSE st[k]]
\* The statement names a column the table does not have, or sets the
\* primary key: the cluster refuses both.
UpdateInvalid(updates) ==
  \E key \in DOMAIN updates : fieldMapping(key) \notin Columns \ {"id_document"}


\* SELECT * ... WHERE col = ?: the matching rows, in ascending key order.
\* hi is the largest key ever written.
SelectWhere(st, col, val, hi) ==
  LET keys == SelectSeq([k \in 1..hi |-> k],
                        LAMBDA k : k \in DOMAIN st /\ st[k][col] = val)
  IN [n \in 1..Len(keys) |-> st[keys[n]]]

\* ----------------------------------------------------------------- paging
Min(x, y) == IF x < y THEN x ELSE y
\* The paging state the cluster hands out after `pos` rows: two bytes.
PagingState(pos) == <<pos \div 256, pos % 256>>
\* The position a paging state received from a client stands for.
PositionOf(bytes) == IF Len(bytes) = 2 THEN bytes[1] * 256 + bytes[2] ELSE 0 - 1
FetchPage_OneShort(rows, fetchSize, pos) ==
  [rows |-> SubSeq(rows, pos + 1, Min(pos + fetchSize - 1, Len(rows))),
   next |-> IF pos + fetchSize < Len(rows) THEN pos + fetchSize ELSE 0 - 1]
\* One page of `fetchSize` rows starting after `pos` rows; next is the
\* position of the following page, or -1 when this page is the last.
FetchPage(rows, fetchSize, pos) ==
  [rows |-> SubSeq(rows, pos + 1, Min(pos + fetchSize, Len(rows))),
   next |-> IF pos + fetchSize < Len(rows) THEN pos + fetchSize ELSE 0 - 1]
\* The cluster rejects a paging state it did not hand out for this query.
PagingStateRejected(rows, bytes) ==
  ~(PositionOf(bytes) >= 1 /\ PositionOf(bytes) < Len(rows))

\* Text is a sequence of one-character strings.
HexDigits == <<"0", "1", "2", "3", "4", "5", "6", "7", "8", "9", "a", "b", "c", "d", "e", "f">>
Base64Alphabet ==
  <<"A", "B", "C", "D", "E", "F", "G", "H", "I", "J", "K", "L", "M", "N", "O", "P",
    "Q", "R", "S", "T", "U", "V", "W", "X", "Y", "Z", "a", "b", "c", "d", "e", "f",
    "g", "h", "i", "j", "k", "l", "m", "n", "o", "p", "q", "r", "s", "t", "u", "v",
    "w", "x", "y", "z", "0", "1", "2", "3", "4", "5", "6", "7", "8", "9", "+", "/">>
\* ResultSet.pageState of the driver: the raw paging state in hexadecimal.
HexEncode(bytes) ==
  [n \in 1..(2 * Len(bytes)) |->
     IF n % 2 = 1 THEN HexDigits[(bytes[(n + 1) \div 2] \div 16) + 1]
     ELSE HexDigits[(bytes[n \div 2] % 16) + 1]]
Base64Index(ch) == (CHOOSE n \in 1..64 : Base64Alphabet[n] = ch) - 1
\* Buffer.from(text, 'base64'): six bits per character, eight per byte.
Base64Decode(text) ==
  [b \in 1..((Len(text) * 6) \div 8) |->
     LET bit == (b - 1) * 8
         c == (bit \div 6) + 1
         hiIdx == Base64Index(text[c])
         loIdx == Base64Index(text[c + 1])
     IN CASE bit % 6 = 0 -> hiIdx * 4 + (loIdx \div 16)
          [] bit % 6 = 2 -> (hiIdx % 16) * 16 + (loIdx \div 4)
          [] OTHER -> (hiIdx % 4) * 64 + loIdx]
\* The cursor the gateway returns: result.pageState.toString().
EncodePageState(pos) == HexEncode(PagingState(pos))
\* The paging state the gateway sends for a cursor it received.
DecodePageState(text) == Base64Decode(text)


\* ------------------------------------------------------------------ state
VARIABLES
  store,   \* trace_tracker.documents: key |-> row, for the keys that hold a row
  nextId,  \* the number of the next UUID Uuid.random() draws
  reqs,    \* slot |-> the HTTP request being served in that slot
  proc,    \* the server process: where its startup stands, the retry counter
  mapper,  \* a document on its way through the field mapper, step by step
  gateway, \* a call of the gateway's updateDocument, taken by itself
  calls    \* the calls of connectCassandra a process makes beside its startup
vars == <<store, nextId, reqs, proc, mapper, gateway, calls>>

\* Requests are served in slots; Spec serves one request at a time in "r1".
Slots == {"r1", "r2"}
SeqSlots == {"r1"}

\* A message of a response or of an error: what it says, the store call or
\* handler it comes from, and the id, index or count it names.
Msg(kind, op, at) == [kind |-> kind, op |-> op, at |-> at]
NoMsg == Msg("", "", 0)
\* error.message || fallback
MessageOr(error, fallback) == IF error.kind = "" THEN fallback ELSE error

\* A response: status code, message, and the payload fields of the handlers
\* (docsCreatedIds; count and documents; pagination.pageState and .pageSize).
Resp(code, msg) ==
  [code |-> code, msg |-> msg, ids |-> <<>>, count |-> 0, rows |-> <<>>,
   cursor |-> <<>>, pageSize |-> 0]
NoResp == Resp(0, NoMsg)

\* A request body.  Absent members: documents, docsId, values <<>> with the
\* has* flag FALSE, value and idDocument Null, pageSize 0, pageState <<>>.
Body(op) ==
  [op |-> op, documents |-> <<>>, hasDocuments |-> FALSE,
   docsId |-> <<>>, hasDocsId |-> FALSE,
   updates |-> <<>>, hasUpdates |-> FALSE,
   idDocument |-> 0 - 1,
   value |-> Null, values |-> <<>>, hasValues |-> FALSE,
   pageSize |-> 0, pageState |-> <<>>]

\* What a slot remembers of the request served before the current one.
NoPrev == [body |-> Body("none"), resp |-> NoResp]

NoReq ==
  [body |-> Body("none"), pc |-> "idle", i |-> 0, createdDocIds |-> <<>>,
   error |-> NoMsg, results |-> <<>>, order |-> <<>>, log |-> <<>>,
   pre |-> <<>>, resp |-> NoResp, prev |-> NoPrev]

\* One store call of a request, as logged: the statement, the key, list index
\* or value it is about, and whether it succeeded.
Call(stmt, at, ok) == [stmt |-> stmt, at |-> at, ok |-> ok]

\* ----------------------------------------------------------------- inputs
SeqsUpTo(S, lo, hi) == UNION {[1..n -> S] : n \in lo..hi}
\* Keys a client names: the first ones handed out, and one never handed out.
IdChoices == {0, 1, 2}
\* Field maps of an Update request: empty, of updatable fields, and two that
\* name a field outside updateDocumentsSchema (one by its column name).
UpdateChoices ==
  {<<>>,
   [status |-> Str("X")],
   [txHash |-> Str("T2"), blockNumber |-> Str("7")],
   [owner |-> Str("o9")],
   [status |-> Str("X"), id_asset |-> Str("Z")]}
\* Lookup values of a search (asset ids and transaction hashes).
ValueChoices == {Str("A"), Str("B"), Str("T1")}
PageSizeChoices == {0, 1, 2, 3}

AddBodies ==
  {[Body("addDocument") EXCEPT !.documents = q, !.hasDocuments = TRUE] :
     q \in SeqsUpTo(Drafts, 1, MaxBatch)}
RemoveBodies ==
  {[Body("removeDocuments") EXCEPT !.docsId = q, !.hasDocsId = TRUE] :
     q \in SeqsUpTo(IdChoices, 1, MaxBatch)}
UpdateBodies ==
  {[Body("updateDocuments") EXCEPT !.docsId = q, !.hasDocsId = TRUE,
                                   !.updates = u, !.hasUpdates = TRUE] :
     q \in SeqsUpTo(IdChoices, 1, MaxBatch), u \in UpdateChoices}
SearchByIdBodies ==
  {[Body("searchDocument") EXCEPT !.idDocument = id] : id \in IdChoices}
\* Cursors a client holds from pages it was given before.
CursorChoices == {<<>>, EncodePageState(1), EncodePageState(2)}
SearchOps == {"searchByAssetId", "searchByTxHash"}
\* Single-value searches, and one body that names no value at all.
SingleSearchBodies ==
  {[Body(op) EXCEPT !.value = v, !.pageSize = p, !.pageState = c] :
     op \in SearchOps, v \in ValueChoices \cup {Null},
     p \in PageSizeChoices, c \in CursorChoices}
\* Searches with a value list, with and without pagination parameters and a
\* single value beside the list.
BatchSearchBodies ==
  {[Body(op) EXCEPT !.values = q, !.hasValues = TRUE, !.value = o[1],
                    !.pageSize = o[2], !.pageState = o[3]] :
     op \in SearchOps, q \in SeqsUpTo(ValueChoices, 1, MaxBatch),
     o \in {<<Null, 0, <<>>>>, <<Str("A"), 1, EncodePageState(1)>>}}
SearchBodies == SingleSearchBodies \cup BatchSearchBodies
\* A draft without the required owner.
DraftNoOwner == [x \in DOMAIN DraftA \ {"owner"} |-> DraftA[x]]
\* Bodies the schemas refuse: a missing or empty document list, a document
\* without a required field, a missing or empty id list, no idDocument, one
\* search value more than the schema admits, no search value at all.
MalformedBodies ==
  {Body("addDocument"),
   [Body("addDocument") EXCEPT !.hasDocuments = TRUE],
   [Body("addDocument") EXCEPT !.documents = <<DraftA, DraftNoOwner>>, !.hasDocuments = TRUE],
   Body("removeDocuments"),
   [Body("removeDocuments") EXCEPT !.hasDocsId = TRUE],
   [Body("updateDocuments") EXCEPT !.updates = [status |-> Str("X")], !.hasUpdates = TRUE],
   [Body("updateDocuments") EXCEPT !.updates = [status |-> Str("X")], !.hasUpdates = TRUE,
                                   !.hasDocsId = TRUE],
   Body("searchDocument")}
  \cup {[Body(op) EXCEPT !.values = [k \in 1..(MaxSearchValues + 1) |-> Str("A")],
                         !.hasValues = TRUE] : op \in SearchOps}
  \cup {Body(op) : op \in SearchOps}

\* ------------------------------------------------------------- validation
UpdatableKeys_Unknown == DocFields \cup Columns
UpdatableKeys == {"txHash", "blockNumber", "status", "txStatus", "amount", "idLocal", "dataHash"}
RequiredFields == {"idAsset", "owner", "data", "dataHash", "timestamp"}
\* documentSchema: required members present, no member outside the schema
\* (createdAt and idDocument are optional members), lists are arrays.
documentSchema(d) ==
  /\ RequiredFields \subseteq DOMAIN d
  /\ DOMAIN d \subseteq DocFields
  /\ d["data"].t = "array"
  /\ \A f \in Range(ListFields) : f \in DOMAIN d => d[f].t = "array"
addDocumentSchema(b) ==
  /\ b.hasDocuments /\ Len(b.documents) >= 1
  /\ \A n \in 1..Len(b.documents) : documentSchema(b.documents[n])
deleteDocumentsSchema(b) == b.hasDocsId /\ Len(b.docsId) >= 1
searchByIdDocumentSchema(b) == b.idDocument >= 0
updatesMinKeys_Any(u) == TRUE
updatesMinKeys(u) == Cardinality(DOMAIN u) >= 1
updateDocumentsSchema(b) ==
  /\ b.hasDocsId /\ Len(b.docsId) >= 1
  /\ b.hasUpdates
  /\ DOMAIN b.updates \subseteq UpdatableKeys
  /\ updatesMinKeys(b.updates)
searchSchema(b) ==
  /\ b.value.t # "null" \/ b.hasValues
  /\ b.hasValues => Len(b.values) >= 1 /\ Len(b.values) <= MaxSearchValues
  /\ b.pageSize >= 0 /\ b.pageSize <= MaxPageSize
\* validate(schema): does the body pass the schema of its route.
validate_None(b) == TRUE
validate(b) ==
  CASE b.op = "addDocument" -> addDocumentSchema(b)
    [] b.op = "removeDocuments" -> deleteDocumentsSchema(b)
    [] b.op = "searchDocument" -> searchByIdDocumentSchema(b)
    [] b.op = "updateDocuments" -> updateDocumentsSchema(b)
    [] OTHER -> searchSchema(b)


\* ---------------------------------------------------------------- requests
Finish(rq, resp) == [rq EXCEPT !.pc = "done", !.resp = resp]
Logged(rq, call) == [rq EXCEPT !.log = Append(@, call)]

\* The request with body b follows up on the request `old` served just before
\* it: a point search of an id that Add returned, or a search that resubmits
\* the cursor of the page before.
FollowsUp(b, old) ==
  \/ /\ b.op = "searchDocument"
     /\ old.body.op = "addDocument"
     /\ old.resp.code = 200
     /\ b.idDocument \in Range(old.resp.ids)
  \/ /\ b.op \in {"searchByAssetId", "searchByTxHash"}
     /\ old.body.op = b.op
     /\ old.body.value = b.value
     /\ ~b.hasValues /\ ~old.body.hasValues
     /\ old.resp.code = 200
     /\ old.resp.cursor # <<>>
     /\ b.pageState = old.resp.cursor

\* A client submits a request to the listening server: the first one of its
\* slot, or one that follows up on the request the slot served before, which
\* the slot then remembers.
Submit(r, b) ==
  /\ proc.pc = "listening"
  /\ \/ reqs[r].pc = "idle"
     \/ reqs[r].pc = "done" /\ FollowsUp(b, reqs[r])
  /\ reqs' = [reqs EXCEPT ![r] =
       [NoReq EXCEPT !.body = b, !.pc = "pending", !.pre = store,
                     !.prev = IF reqs[r].pc = "done"
                              THEN [body |-> reqs[r].body, resp |-> reqs[r].resp]
                              ELSE NoPrev]]
  /\ UNCHANGED <<store, nextId, proc, mapper, gateway, calls>>

\* The handler of the route, from its entry to its first store call.
EnterHandler(rq) ==
  LET b == rq.body IN
  CASE b.op = "addDocument" ->
         IF ~b.hasDocuments \/ Len(b.documents) = 0
         THEN Finish(rq, Resp(400, Msg("required", "documents", 0)))
         ELSE [rq EXCEPT !.pc = "insert", !.i = 1]
    [] b.op = "removeDocuments" ->
         IF ~b.hasDocsId
         THEN Finish(rq, Resp(400, Msg("required", "docsId", 0)))
         ELSE IF Len(b.docsId) = 0
         THEN Finish(rq, [Resp(200, Msg("deleted", "removeDocuments", 0)) EXCEPT !.count = 0])
         ELSE [rq EXCEPT !.pc = "check", !.i = 1]
    [] b.op = "updateDocuments" ->
         IF ~b.hasDocsId \/ Len(b.docsId) = 0
         THEN Finish(rq, Resp(400, Msg("required", "docsId", 0)))
         ELSE IF ~b.hasUpdates \/ Cardinality(DOMAIN b.updates) = 0
         THEN Finish(rq, Resp(400, Msg("required", "updates", 0)))
         ELSE [rq EXCEPT !.pc = "check", !.i = 1]
    [] b.op = "searchDocument" ->
         IF b.idDocument < 0
         THEN Finish(rq, Resp(400, Msg("required", "idDocument", 0)))
         ELSE [rq EXCEPT !.pc = "select"]
    [] OTHER ->
         IF ~b.hasValues /\ ~Truthy(b.value)
         THEN Finish(rq, Resp(400, Msg("required", "searchValue", 0)))
         ELSE IF b.hasValues
         THEN [rq EXCEPT !.pc = "fanout"]
         ELSE [rq EXCEPT !.pc = "page"]

\* The validation middleware answers 400 or calls the handler.
Dispatch(r) ==
  /\ reqs[r].pc = "pending"
  /\ reqs' = [reqs EXCEPT ![r] =
       IF validate(reqs[r].body)
       THEN EnterHandler(reqs[r])
       ELSE Finish(reqs[r], Resp(400, Msg("Validation error", "validate", 0)))]
  /\ UNCHANGED <<store, nextId, proc, mapper, gateway, calls>>

\* ------------------------------------------------------------- addDocument
AddSuccess_Reversed(rq) ==
  Finish(rq, [Resp(200, Msg("created", "addDocument", Len(rq.createdDocIds)))
                EXCEPT !.ids = [n \in 1..Len(rq.createdDocIds) |->
                                  rq.createdDocIds[Len(rq.createdDocIds) + 1 - n]]])
\* The response after the last insert succeeded.
AddSuccess(rq) ==
  Finish(rq, [Resp(200, Msg("created", "addDocument", Len(rq.createdDocIds)))
                EXCEPT !.ids = rq.createdDocIds])
\* The response of the catch block, after the rollback.
AddFailure(rq) ==
  Finish(rq, Resp(500, MessageOr(rq.error, Msg("Error creating documents", "addDocument", 0))))

\* insertDocument(treatDocument(doc)) succeeds: the id is recorded.
AddInsertOk(r) ==
  LET rq == reqs[r]
      doc == rq.body.documents[rq.i]
      done == [Logged(rq, Call("insert", rq.i, TRUE))
                 EXCEPT !.createdDocIds = Append(@, nextId)]
  IN /\ rq.pc = "insert"
     /\ store' = InsertRow(store, nextId, treatDocument(doc))
     /\ nextId' = nextId + 1
     /\ reqs' = [reqs EXCEPT ![r] =
          IF rq.i = Len(rq.body.documents)
          THEN AddSuccess(done)
          ELSE [done EXCEPT !.i = rq.i + 1]]
     /\ UNCHANGED <<proc, mapper, gateway, calls>>

StartRollback_None(rq) == AddFailure(rq)
\* The rollback loop starts at the first created id, if there is one.
StartRollback(rq) ==
  IF Len(rq.createdDocIds) > 0
  THEN [rq EXCEPT !.pc = "rollback", !.i = 1]
  ELSE AddFailure(rq)

\* The insert throws: the catch block keeps the error.
AddInsertFail(r) ==
  LET rq == reqs[r]
      failed == [Logged(rq, Call("insert", rq.i, FALSE))
                   EXCEPT !.error = Msg("store error", "insert", rq.i)]
  IN /\ rq.pc = "insert"
     /\ reqs' = [reqs EXCEPT ![r] = StartRollback(failed)]
     /\ UNCHANGED <<store, nextId, proc, mapper, gateway, calls>>

RollbackNext_StopOnError(rq) ==
  IF rq.i = Len(rq.createdDocIds) \/ ~rq.log[Len(rq.log)].ok
  THEN AddFailure(rq)
  ELSE [rq EXCEPT !.i = rq.i + 1]
\* After one rollback delete, whatever its outcome: the next id, or the response.
RollbackNext(rq) ==
  IF rq.i = Len(rq.createdDocIds)
  THEN AddFailure(rq)
  ELSE [rq EXCEPT !.i = rq.i + 1]

\* One deleteDocument of the rollback; its failure is only logged.
AddRollback(r, ok) ==
  LET rq == reqs[r]
      id == rq.createdDocIds[rq.i]
  IN /\ rq.pc = "rollback"
     /\ store' = IF ok THEN DeleteRow(store, id) ELSE store
     /\ reqs' = [reqs EXCEPT ![r] = RollbackNext(Logged(rq, Call("delete", id, ok)))]
     /\ UNCHANGED <<nextId, proc, mapper, gateway, calls>>


\* --------------------------------------------- removeDocuments, updateDocuments
LoopNext_ReturnInLoop(rq) ==
  Finish(rq, [Resp(200, Msg("updated", "updateDocuments", Len(rq.body.docsId)))
                EXCEPT !.count = Len(rq.body.docsId)])
\* After the delete or update of docsId[i]: the next id, or the response.
LoopNext(rq) ==
  IF rq.i < Len(rq.body.docsId)
  THEN [rq EXCEPT !.pc = "check", !.i = rq.i + 1]
  ELSE IF rq.body.op = "removeDocuments"
  THEN Finish(rq, [Resp(200, Msg("deleted", "removeDocuments", Len(rq.body.docsId)))
                     EXCEPT !.count = Len(rq.body.docsId)])
  ELSE Finish(rq, [Resp(200, Msg("updated", "updateDocuments", Len(rq.body.docsId)))
                     EXCEPT !.count = Len(rq.body.docsId)])

Caught_Resume(rq, error, fallback) == LoopNext(rq)
\* The catch block of a handler: 500 with the message of the error.
Caught(rq, error, fallback) == Finish(rq, Resp(500, MessageOr(error, fallback)))
NotFound_Continue(rq, id) == LoopNext(rq)
NotFound(rq, id) == Finish(rq, Resp(404, Msg("not found", "Document", id)))

\* searchByDocumentId(id) of the loop of removeDocuments or updateDocuments:
\* 404 when no row comes back, else on to the delete or the update.
CheckExists(r, ok) ==
  LET rq == reqs[r]
      id == rq.body.docsId[rq.i]
      seen == Logged(rq, Call("select", id, ok))
  IN /\ rq.pc = "check"
     /\ reqs' = [reqs EXCEPT ![r] =
          IF ~ok THEN Caught(seen, Msg("store error", "select", id), NoMsg)
          ELSE IF Len(searchByDocumentId(store, id)) = 0 THEN NotFound(seen, id)
          ELSE [seen EXCEPT !.pc = "mutate"]]
     /\ UNCHANGED <<store, nextId, proc, mapper, gateway, calls>>

\* deleteDocument(id) of removeDocuments.
RemoveDelete(r, ok) ==
  LET rq == reqs[r]
      id == rq.body.docsId[rq.i]
      called == Logged(rq, Call("delete", id, ok))
  IN /\ rq.pc = "mutate"
     /\ rq.body.op = "removeDocuments"
     /\ store' = IF ok THEN DeleteRow(store, id) ELSE store
     /\ reqs' = [reqs EXCEPT ![r] =
          IF ok THEN LoopNext(called)
          ELSE Caught(called, Msg("store error", "delete", id), NoMsg)]
     /\ UNCHANGED <<nextId, proc, mapper, gateway, calls>>

\* updateDocument(id, updates) of the gateway: nothing is sent for an empty
\* map; the UPDATE fails when the cluster fails or a column does not exist.
updateSends(updates) == Cardinality(DOMAIN updates) > 0
UpdateWrite(r, ok) ==
  LET rq == reqs[r]
      id == rq.body.docsId[rq.i]
      updates == rq.body.updates
      applied == ok /\ ~UpdateInvalid(updates)
      called == Logged(rq, Call("update", id, applied))
  IN /\ rq.pc = "mutate"
     /\ rq.body.op = "updateDocuments"
     /\ IF ~updateSends(updates)
        THEN /\ ok
             /\ store' = store
             /\ reqs' = [reqs EXCEPT ![r] = LoopNext(rq)]
        ELSE /\ store' = IF applied THEN UpdateRow(store, id, updates) ELSE store
             /\ reqs' = [reqs EXCEPT ![r] =
                  IF applied THEN LoopNext(called)
                  ELSE Caught(called, Msg("store error", "update", id), NoMsg)]
     /\ UNCHANGED <<nextId, proc, mapper, gateway, calls>>

\* ------------------------------------------------------------ searchDocument
\* The body of the 200 response: result.rows as the driver returned them.
searchDocumentResult(st, id) ==
  IF Len(searchByDocumentId(st, id)) = 0
  THEN Resp(404, Msg("not found", "Document", 0))
  ELSE [Resp(200, NoMsg) EXCEPT !.rows = searchByDocumentId(st, id)]
SearchById(r, ok) ==
  LET rq == reqs[r]
      id == rq.body.idDocument
      called == Logged(rq, Call("select", id, ok))
  IN /\ rq.pc = "select"
     /\ reqs' = [reqs EXCEPT ![r] =
          IF ok THEN Finish(called, searchDocumentResult(store, id))
          ELSE Caught(called, Msg("store error", "select", id), NoMsg)]
     /\ UNCHANGED <<store, nextId, proc, mapper, gateway, calls>>

\* ------------------------------------------- searchByAssetId, searchByTxHash
\* The column the query of the route filters on.
SearchColumn(op) == IF op = "searchByAssetId" THEN "asset_id_blockchain" ELSE "tx_hash"

SearchResponse_EmptyOk(b, rows, cursor) ==
  [Resp(200, NoMsg) EXCEPT
     !.count = Len(rows), !.rows = rows, !.cursor = cursor,
     !.pageSize = IF cursor = <<>> THEN 0
                  ELSE IF b.pageSize # 0 THEN b.pageSize ELSE DefaultFetchSize]
\* The controller's response for the rows and cursor the gateway returned.
SearchResponse(b, rows, cursor) ==
  IF Len(rows) = 0
  THEN Resp(404, Msg("No documents found", b.op, 0))
  ELSE [Resp(200, NoMsg) EXCEPT
          !.count = Len(rows), !.rows = rows, !.cursor = cursor,
          !.pageSize = IF cursor = <<>> THEN 0
                       ELSE IF b.pageSize # 0 THEN b.pageSize ELSE DefaultFetchSize]

\* options = (pageSize || pageState) ? { pageSize, pageState } : undefined,
\* then fetchSize = options?.pageSize || 100.
FetchSizeOf(b) == IF b.pageSize # 0 THEN b.pageSize ELSE DefaultFetchSize
\* The position the cluster resumes at: that of the decoded paging state.
ResumeAt(b) == IF b.pageState = <<>> THEN 0 ELSE PositionOf(DecodePageState(b.pageState))
\* The cursor of the gateway's result: the driver's pageState, or null.
CursorOf(page) == IF page.next >= 0 THEN EncodePageState(page.next) ELSE <<>>

\* Single value: one page, with the caller's page size and cursor.
SearchPage(r, ok) ==
  LET rq == reqs[r]
      b == rq.body
      rows == SelectWhere(store, SearchColumn(b.op), b.value, nextId - 1)
      accepted == ok /\ (b.pageState = <<>> \/
                         ~PagingStateRejected(rows, DecodePageState(b.pageState)))
      page == FetchPage(rows, FetchSizeOf(b), ResumeAt(b))
      called == Logged(rq, Call("select", 0, ok))
  IN /\ rq.pc = "page"
     /\ reqs' = [reqs EXCEPT ![r] =
          IF accepted
          THEN Finish(called, SearchResponse(b, page.rows, CursorOf(page)))
          ELSE Caught(called, Msg("store error", "select", 0), NoMsg)]
     /\ UNCHANGED <<store, nextId, proc, mapper, gateway, calls>>

RECURSIVE Flatten(_)
Flatten(q) == IF Len(q) = 0 THEN <<>> ELSE Head(q) \o Flatten(Tail(q))
allRows_ByCompletion(rq) == Flatten([j \in 1..Len(rq.order) |-> rq.results[rq.order[j]]])
\* results.flatMap(result => result.rows): Promise.all keeps the results in
\* the order of the values, whatever the order the queries completed in.
allRows(rq) == Flatten([k \in 1..Len(rq.body.values) |-> rq.results[k]])

\* Value list: the query for values[k] completes (in any order); the first
\* failure rejects the whole search; the last completion builds the response.
SearchFanout(r, k, ok) ==
  LET rq == reqs[r]
      b == rq.body
      rows == SelectWhere(store, SearchColumn(b.op), b.values[k], nextId - 1)
      page == FetchPage(rows, BatchFetchSize, 0)
      called == [Logged(rq, Call("select", k, ok)) EXCEPT
                   !.results = [j \in DOMAIN rq.results \cup {k} |->
                                  IF j = k THEN page.rows ELSE rq.results[j]],
                   !.order = Append(@, k)]
  IN /\ rq.pc = "fanout"
     /\ k \in (1..Len(b.values)) \ DOMAIN rq.results
     /\ reqs' = [reqs EXCEPT ![r] =
          IF ~ok THEN Caught(called, Msg("store error", "select", k), NoMsg)
          ELSE IF DOMAIN called.results = 1..Len(b.values)
          THEN Finish(called, SearchResponse(b, allRows(called), <<>>))
          ELSE called]
     /\ UNCHANGED <<store, nextId, proc, mapper, gateway, calls>>

\* ------------------------------------------------------------------ startup
\* connectCassandra retries while tries < 10, 5000 ms after each failure.
MaxTries == 10
RetryDelay == 5000
\* How client.connect() can end: connected, or rejected with an error.
ConnectOutcomes == {"connected", "NoHostAvailableError", "Error"}
\* The steps of setupDatabase, in the order it awaits them.
SetupSteps == <<"connect", "keyspace", "user", "table", "indexes">>
\* The process when initialize() is called: module state tries = 0.  The
\* other fields record what happened: the client.connect() calls made, the
\* errors they ended with, the time spent in setTimeout, the steps done.
Booting ==
  [pc |-> "connect", tries |-> 0, attempts |-> 0, failures |-> <<>>, clock |-> 0,
   conn |-> "calling", steps |-> <<>>, error |-> "", code |-> 0]
\* A process that started with the cluster reachable at once.
Started ==
  [Booting EXCEPT !.pc = "listening", !.attempts = 1, !.conn = "connected",
                  !.steps = SetupSteps]

\* error instanceof cassandra.errors.NoHostAvailableError
Retryable_Any(error) == TRUE
Retryable(error) == error = "NoHostAvailableError"
\* tries < 10, after tries++
MayRetry_OffByOne(tries) == tries <= MaxTries
MayRetry(tries) == tries < MaxTries
processExit_LogOnly(p, error) == [p EXCEPT !.pc = "listen", !.error = error]
\* The catch block of initialize: process.exit(1).
processExit(p, error) == [p EXCEPT !.pc = "exited", !.error = error, !.code = 1]

\* One client.connect() of connectCassandra ends.  A rejection that is not
\* retried is thrown through setupDatabase to initialize, which exits.
connectCassandra(outcome) ==
  LET p == [proc EXCEPT !.attempts = @ + 1]
      failed == [p EXCEPT !.failures = Append(@, outcome)]
      counted == [failed EXCEPT !.tries = @ + 1]
  IN /\ proc.pc = "connect"
     /\ proc' =
          IF outcome = "connected"
          THEN [p EXCEPT !.conn = "connected", !.steps = Append(@, "connect"),
                         !.pc = "keyspace"]
          ELSE IF Retryable(outcome)
          THEN (IF MayRetry(counted.tries)
                THEN [counted EXCEPT !.pc = "waiting"]
                ELSE processExit([counted EXCEPT !.conn = "raised"], outcome))
          ELSE processExit([failed EXCEPT !.conn = "raised"], outcome)
     /\ UNCHANGED <<store, nextId, reqs, mapper, gateway, calls>>

\* setTimeout(resolve, 5000) fires: connectCassandra calls itself.
retryTimer ==
  /\ proc.pc = "waiting"
  /\ proc' = [proc EXCEPT !.clock = @ + RetryDelay, !.pc = "connect"]
  /\ UNCHANGED <<store, nextId, reqs, mapper, gateway, calls>>

\* The step of setupDatabase after `step`; after the last one initialize
\* goes on to createApp and app.listen.
AfterStep(step) ==
  CASE step = "keyspace" -> "user"
    [] step = "user" -> "table"
    [] step = "table" -> "indexes"
    [] OTHER -> "listen"
\* createKeyspace, addUserBlockchain, createTable or createIndexes ends:
\* addUserBlockchain always resolves, the others throw when a statement fails.
setupDatabase(ok) ==
  /\ proc.pc \in {"keyspace", "user", "table", "indexes"}
  /\ proc.pc = "user" => ok
  /\ proc' = IF ok
             THEN [proc EXCEPT !.steps = Append(@, proc.pc), !.pc = AfterStep(proc.pc)]
             ELSE processExit(proc, "Error")
  /\ UNCHANGED <<store, nextId, reqs, mapper, gateway, calls>>

\* initialize after setupDatabase: app.listen.
initialize ==
  /\ proc.pc = "listen"
  /\ proc' = [proc EXCEPT !.pc = "listening"]
  /\ UNCHANGED <<store, nextId, reqs, mapper, gateway, calls>>

\* ------------------------------------------- connectCassandra, called again
\* Calls of connectCassandra made by one process, beside or after one
\* another (a test, a reconnect).  Each call has its own position, attempts
\* and outcome; the counter `tries` is the module's (proc.tries): every call
\* increments and reads the same one, and nothing resets it.
CallIds == {"c1", "c2"}
NoCall == [pc |-> "idle", attempts |-> 0, error |-> ""]
NoCalls == [c \in CallIds |-> NoCall]
\* A caller invokes connectCassandra().
callConnect(c) ==
  /\ calls[c].pc = "idle"
  /\ calls' = [calls EXCEPT ![c].pc = "connect"]
  /\ UNCHANGED <<store, nextId, reqs, proc, mapper, gateway>>
\* client.connect() of the call ends.
connectAttempt(c, outcome) ==
  LET tried == [calls[c] EXCEPT !.attempts = @ + 1]
      counted == IF outcome = "connected" \/ ~Retryable(outcome) THEN proc.tries
                 ELSE proc.tries + 1
  IN /\ calls[c].pc = "connect"
     /\ proc' = [proc EXCEPT !.tries = counted]
     /\ calls' = [calls EXCEPT ![c] =
          IF outcome = "connected" THEN [tried EXCEPT !.pc = "connected"]
          ELSE IF Retryable(outcome) /\ MayRetry(counted) THEN [tried EXCEPT !.pc = "waiting"]
          ELSE [tried EXCEPT !.pc = "raised", !.error = outcome]]
     /\ UNCHANGED <<store, nextId, reqs, mapper, gateway>>
\* setTimeout(resolve, 5000) of the call fires: it calls connectCassandra again.
callTimer(c) ==
  /\ calls[c].pc = "waiting"
  /\ calls' = [calls EXCEPT ![c].pc = "connect"]
  /\ UNCHANGED <<store, nextId, reqs, proc, mapper, gateway>>

\* ------------------------------------------------------- the field mapper
\* The document the mapper works on: doc is what it was given, ops the
\* conversions applied so far and vals the document after each of them.
\* args holds, per conversion, the object it was called with as that object
\* is after the call.
Unmapped == [doc |-> <<>>, ops |-> <<>>, vals |-> <<>>, args |-> <<>>]

\* What a list field may hold: arrays (of strings, in two orders, with a
\* number, empty), JSON text of an array (of strings, with a number) and of
\* a number, text that is no
\* JSON (plain, unclosed, empty), a number, zero, an object, null.
ListValues ==
  {Arr(<<Str("g1"), Str("g2")>>), Arr(<<Str("g2"), Str("g1")>>), Arr(<<Num("5"), Str("g1")>>),
   Arr(<<>>), JSONstringify(Arr(<<Str("g1"), Str("g2")>>)), JSONtext(<<Lit(Num("5"))>>),
   JSONstringify(Arr(<<Num("5"), Str("g1")>>)),
   Str("plain"), JSONtext(<<Punct("["), Lit(Str("g1"))>>), Str(""),
   Num("5"), Num("0"), Obj("o"), Null}
FewListValues == {Arr(<<Str("g3")>>), JSONstringify(Arr(<<Str("g3")>>)), Str("plain")}
\* What data may hold: an array of objects, an object, text, JSON text.
DataValues ==
  {Arr(<<Obj("d1"), Obj("d2")>>), Obj("d1"), Str("text"),
   JSONstringify(Arr(<<Obj("d1")>>))}
\* The documents given to the mapper: DraftC with data and the list fields
\* replaced; groupedBy and idExternal may also be absent.
MapperDocs ==
  {[x \in DOMAIN DraftC \cup gb \cup {"groupedAssets"} \cup ie |->
      CASE x = "data" -> d
        [] x = "groupedBy" -> g
        [] x = "groupedAssets" -> ga
        [] x = "idExternal" -> e
        [] OTHER -> DraftC[x]] :
     d \in DataValues, g \in ListValues, ga \in FewListValues, e \in FewListValues,
     gb \in {{}, {"groupedBy"}}, ie \in {{}, {"idExternal"}}}

Current == IF mapper.vals = <<>> THEN mapper.doc ELSE mapper.vals[Len(mapper.vals)]
\* addDocument's first conversion of a draft.
Treat ==
  /\ mapper.ops = <<>>
  /\ mapper' = [mapper EXCEPT !.ops = <<"treatDocument">>,
                               !.vals = <<treatDocument(mapper.doc)>>,
                               !.args = <<mapper.doc>>]
  /\ UNCHANGED <<store, nextId, reqs, proc, gateway, calls>>
\* insertDocument's conversion, applied to what the document is by now.
Prepare ==
  /\ Len(mapper.ops) < MaxSteps
  /\ mapper' = [mapper EXCEPT !.ops = Append(@, "prepareDocumentForCassandra"),
                               !.vals = Append(@, prepareDocumentForCassandra(Current)),
                               !.args = Append(@, argumentAfter(Current))]
  /\ UNCHANGED <<store, nextId, reqs, proc, gateway, calls>>

\* ------------------------------------------------- updateDocument by itself
\* A call updateDocument(id, updates): updates as Object.entries lists it,
\* the statements handed to client.execute, and how the call ended.
NoUpdate == [pc |-> "idle", id |-> 0, entries |-> <<>>, issued |-> <<>>]
Entry(key, value) == [key |-> key, value |-> value]
\* Keys of an updates object: of the mapping table, outside it (a document
\* property, a column name), and one every object inherits.
GatewayKeys == {"txHash", "status", "amount", "owner", "tx_hash", "constructor"}
ValueOfKey(key) == IF key = "amount" THEN Num("5") ELSE Str("v")
\* Objects hold a key once.
EntryLists ==
  {[n \in 1..Len(q) |-> Entry(q[n], ValueOfKey(q[n]))] :
     q \in {w \in SeqsUpTo(GatewayKeys, 0, MaxKeys) :
              \A n, m \in 1..Len(w) : n # m => w[n] # w[m]}}
\* UPDATE trace_tracker.documents SET <dbField = ?, ...> WHERE id_document = ?
\* with the values followed by the id; the statement has no IF clause.
UpdateStatement(id, entries) ==
  [stmt |-> "UPDATE", table |-> "trace_tracker.documents",
   set |-> [n \in 1..Len(entries) |-> fieldMapping(entries[n].key)],
   where |-> <<"id_document">>, ifClause |-> "",
   values |-> [n \in 1..(Len(entries) + 1) |->
                 IF n <= Len(entries) THEN entries[n].value ELSE UuidText(id)]]
\* The call runs: it returns at once when there is nothing to set, else it
\* awaits client.execute, which resolves or rejects.
updateDocument(ok) ==
  /\ gateway.pc = "called"
  /\ IF Len(gateway.entries) = 0
     THEN ok /\ gateway' = [gateway EXCEPT !.pc = "returned"]
     ELSE gateway' = [gateway EXCEPT
            !.issued = Append(@, UpdateStatement(gateway.id, gateway.entries)),
            !.pc = IF ok THEN "returned" ELSE "thrown"]
  /\ UNCHANGED <<store, nextId, reqs, proc, mapper, calls>>

\* ------------------------------------------------------------ specification
\* The table after the given drafts were added one by one.
Preloaded(q) ==
  [k \in 1..Len(q) |-> RowOf(InsertedDoc(treatDocument(q[k]), k))]
InitTables ==
  {<<>>, <<DraftA, DraftB>>, <<DraftA, DraftA, DraftC>>,
   <<DraftA, DraftA, DraftA, DraftA, DraftA>>}

Init ==
  /\ \E q \in InitTables : store = Preloaded(q) /\ nextId = Len(q) + 1
  /\ reqs = [r \in Slots |-> NoReq]
  /\ proc = Started
  /\ mapper = Unmapped
  /\ gateway = NoUpdate
  /\ calls = NoCalls

Bodies ==
  AddBodies \cup RemoveBodies \cup UpdateBodies \cup SearchByIdBodies \cup SearchBodies
    \cup MalformedBodies

Next ==
  \E r \in SeqSlots :
    \/ \E b \in Bodies : Submit(r, b)
    \/ Dispatch(r)
    \/ AddInsertOk(r)
    \/ AddInsertFail(r)
    \/ \E ok \in BOOLEAN : AddRollback(r, ok)
    \/ \E ok \in BOOLEAN : CheckExists(r, ok)
    \/ \E ok \in BOOLEAN : RemoveDelete(r, ok)
    \/ \E ok \in BOOLEAN : UpdateWrite(r, ok)
    \/ \E ok \in BOOLEAN : SearchById(r, ok)
    \/ \E ok \in BOOLEAN : SearchPage(r, ok)
    \/ \E k \in 1..MaxBatch, ok \in BOOLEAN : SearchFanout(r, k, ok)

Spec == Init /\ [][Next]_vars

\* The searches alone, over tables that hold as many documents of one asset
\* as one query of a value list fetches, and one more.
BulkTables ==
  {[k \in 1..(BatchFetchSize + extra) |-> DraftA] \o <<DraftC>> : extra \in {0, 1}}
InitBulk ==
  /\ \E q \in BulkTables : store = Preloaded(q) /\ nextId = Len(q) + 1
  /\ reqs = [r \in Slots |-> NoReq]
  /\ proc = Started
  /\ mapper = Unmapped
  /\ gateway = NoUpdate
  /\ calls = NoCalls
BulkBodies ==
  {b \in SearchBodies :
     /\ b.op = "searchByAssetId"
     /\ b.hasValues => Len(b.values) <= 2 /\ b.pageSize = 0
     /\ ~b.hasValues => b.pageSize \in {0, 1}}
NextBulk ==
  \E r \in SeqSlots :
    \/ \E b \in BulkBodies : Submit(r, b)
    \/ Dispatch(r)
    \/ \E ok \in BOOLEAN : SearchPage(r, ok)
    \/ \E k \in 1..MaxBatch, ok \in BOOLEAN : SearchFanout(r, k, ok)
SpecBulk == InitBulk /\ [][NextBulk]_vars

\* The process from the call of initialize() on: startup, then point
\* searches and removals on the table of an earlier run.  Every continuation
\* of the startup (a settled promise, the timer) is eventually run.
InitBoot ==
  /\ \E q \in {<<>>, <<DraftA, DraftB>>} : store = Preloaded(q) /\ nextId = Len(q) + 1
  /\ reqs = [r \in Slots |-> NoReq]
  /\ proc = Booting
  /\ mapper = Unmapped
  /\ gateway = NoUpdate
  /\ calls = NoCalls
BootBodies ==
  SearchByIdBodies \cup {b \in RemoveBodies : Len(b.docsId) = 1}
Startup ==
  \/ \E outcome \in ConnectOutcomes : connectCassandra(outcome)
  \/ retryTimer
  \/ \E ok \in BOOLEAN : setupDatabase(ok)
  \/ initialize
NextBoot ==
  \/ Startup
  \/ \E r \in SeqSlots :
       \/ \E b \in BootBodies : Submit(r, b)
       \/ Dispatch(r)
       \/ \E ok \in BOOLEAN : SearchById(r, ok)
       \/ \E ok \in BOOLEAN : CheckExists(r, ok)
       \/ \E ok \in BOOLEAN : RemoveDelete(r, ok)
SpecBoot == InitBoot /\ [][NextBoot]_vars /\ WF_vars(Startup)

\* The field mapper alone, over the documents of MapperDocs.
InitMapper ==
  /\ store = <<>>
  /\ nextId = 1
  /\ reqs = [r \in Slots |-> NoReq]
  /\ proc = Started
  /\ \E d \in MapperDocs : mapper = [Unmapped EXCEPT !.doc = d]
  /\ gateway = NoUpdate
  /\ calls = NoCalls
NextMapper == Treat \/ Prepare
SpecMapper == InitMapper /\ [][NextMapper]_vars


\* Two requests served at once (the handlers interleave at their awaits),
\* on a table that holds one document, key 1: Adds of one and of two
\* documents, Removes and Updates of key 1 and of key 2 (the first key an
\* Add is given), and point searches of the two.
InitRace ==
  /\ store = Preloaded(<<DraftA>>)
  /\ nextId = 2
  /\ reqs = [r \in Slots |-> NoReq]
  /\ proc = Started
  /\ mapper = Unmapped
  /\ gateway = NoUpdate
  /\ calls = NoCalls
RaceBodies ==
  {b \in AddBodies : b.documents \in {<<DraftA>>, <<DraftA, DraftB>>}}
    \cup {b \in RemoveBodies \cup SearchByIdBodies : b.docsId \in {<<>>, <<1>>, <<2>>} /\ b.idDocument # 0}
    \cup {b \in UpdateBodies : b.docsId \in {<<1>>, <<2>>} /\ b.updates = [status |-> Str("X")]}
NextRace ==
  \E r \in Slots :
    \/ \E b \in RaceBodies : Submit(r, b)
    \/ Dispatch(r)
    \/ AddInsertOk(r)
    \/ AddInsertFail(r)
    \/ \E ok \in BOOLEAN : AddRollback(r, ok)
    \/ \E ok \in BOOLEAN : CheckExists(r, ok)
    \/ \E ok \in BOOLEAN : RemoveDelete(r, ok)
    \/ \E ok \in BOOLEAN : UpdateWrite(r, ok)
    \/ \E ok \in BOOLEAN : SearchById(r, ok)
SpecRace == InitRace /\ [][NextRace]_vars

\* updateDocument alone, over the calls of EntryLists.
InitGateway ==
  /\ store = <<>>
  /\ nextId = 1
  /\ reqs = [r \in Slots |-> NoReq]
  /\ proc = Started
  /\ mapper = Unmapped
  /\ calls = NoCalls
  /\ \E id \in {1, 2}, entries \in EntryLists :
        gateway = [NoUpdate EXCEPT !.pc = "called", !.id = id, !.entries = entries]
NextGateway == \E ok \in BOOLEAN : updateDocument(ok)
SpecGateway == InitGateway /\ [][NextGateway]_vars

\* A process that calls connectCassandra twice, at any times.
InitConnect ==
  /\ store = <<>>
  /\ nextId = 1
  /\ reqs = [r \in Slots |-> NoReq]
  /\ proc = [Booting EXCEPT !.pc = "calls"]
  /\ mapper = Unmapped
  /\ gateway = NoUpdate
  /\ calls = NoCalls
NextConnect ==
  \E c \in CallIds :
    \/ callConnect(c)
    \/ \E outcome \in ConnectOutcomes : connectAttempt(c, outcome)
    \/ callTimer(c)
SpecConnect == InitConnect /\ [][NextConnect]_vars

\* ------------------------------------------------------------------ claims
\* A claim about the outcome of a request is read for the requests whose
\* store calls succeed, except for the failures the claim itself names.
Done(rq, op) == rq.pc = "done" /\ rq.body.op = op
AllOk(log) == \A m \in 1..Len(log) : log[m].ok
CallsOf(log, stmt) == SelectSeq(log, LAMBDA c : c.stmt = stmt)
\* The index of the insert that failed, 0 when none did.
FailedInsert(rq) ==
  IF \E m \in 1..Len(rq.log) : rq.log[m].stmt = "insert" /\ ~rq.log[m].ok
  THEN (CHOOSE c \in Range(rq.log) : c.stmt = "insert" /\ ~c.ok).at
  ELSE 0

\* C1: when the insert of Dk is the first to fail in an Add, a delete is
\* attempted for each id assigned to D1..D(k-1), no insert is attempted for
\* D(k+1)..Dn, and the response carries the error of Dk's insert.
C1_AddFailureRollsBack ==
  \A r \in Slots :
    LET rq == reqs[r]
        k == FailedInsert(rq)
    IN Done(rq, "addDocument") /\ k > 0 =>
         /\ Len(rq.createdDocIds) = k - 1
         /\ \A n \in 1..(k - 1) :
              /\ rq.createdDocIds[n] \notin DOMAIN rq.pre
              /\ \E c \in Range(rq.log) : c.stmt = "delete" /\ c.at = rq.createdDocIds[n]
         /\ \A c \in Range(rq.log) : c.stmt = "insert" => c.at <= k
         /\ rq.resp.code = 500
         /\ rq.resp.msg = Msg("store error", "insert", k)
\* An Add of three documents whose second insert failed has been answered.
C1_Witness ==
  \E r \in Slots :
    /\ Done(reqs[r], "addDocument")
    /\ Len(reqs[r].body.documents) = 3
    /\ FailedInsert(reqs[r]) = 2

\* C2: in the rollback of an Add every id created so far gets exactly one
\* delete attempt, in creation order, whatever the outcome of the earlier
\* rollback deletes, and the response still carries the insert error.
C2_RollbackContinues ==
  \A r \in Slots :
    LET rq == reqs[r]
        k == FailedInsert(rq)
        deletes == CallsOf(rq.log, "delete")
    IN Done(rq, "addDocument") /\ k > 0 =>
         /\ Len(deletes) = Len(rq.createdDocIds)
         /\ \A n \in 1..Len(deletes) : deletes[n].at = rq.createdDocIds[n]
         /\ rq.resp.code = 500
         /\ rq.resp.msg = Msg("store error", "insert", k)
\* A rollback of two ids whose first delete failed has run to its end.
C2_Witness ==
  \E r \in Slots :
    LET deletes == CallsOf(reqs[r].log, "delete")
    IN /\ Done(reqs[r], "addDocument")
       /\ Len(deletes) = 2
       /\ ~deletes[1].ok

\* Position k of the id list names the first id that is not stored when the
\* request arrives.
FirstMissing(rq, k) ==
  /\ k \in 1..Len(rq.body.docsId)
  /\ rq.body.docsId[k] \notin DOMAIN rq.pre
  /\ \A j \in 1..(k - 1) : rq.body.docsId[j] \in DOMAIN rq.pre
\* Position k names the first id that is not stored when its turn comes: it
\* was not stored when the request arrived, or an earlier position deleted it.
FirstMissingAtTurn(rq, k) ==
  /\ k \in 1..Len(rq.body.docsId)
  /\ \/ rq.body.docsId[k] \notin DOMAIN rq.pre
     \/ \E j \in 1..(k - 1) : rq.body.docsId[j] = rq.body.docsId[k]
  /\ \A j \in 1..(k - 1) :
       /\ rq.body.docsId[j] \in DOMAIN rq.pre
       /\ \A h \in 1..(j - 1) : rq.body.docsId[h] # rq.body.docsId[j]
Earlier(rq, k) == {rq.body.docsId[j] : j \in 1..(k - 1)}
Later(rq, k) == {rq.body.docsId[j] : j \in (k + 1)..Len(rq.body.docsId)}
Untouched(id, rq) == id \in DOMAIN rq.pre => id \in DOMAIN store /\ store[id] = rq.pre[id]

\* C3 as stated: for a Remove whose first non-existent id is ik, i1..i(k-1)
\* are deleted, the call reports "ik not found", no check or delete is issued
\* for i(k+1)..in, and those remain stored unchanged.
C3_AsStated ==
  \A r \in Slots :
    LET rq == reqs[r] IN
    \A k \in 1..MaxBatch :
      Done(rq, "removeDocuments") /\ AllOk(rq.log) /\ FirstMissing(rq, k) =>
        /\ \A id \in Earlier(rq, k) : id \notin DOMAIN store
        /\ rq.resp = Resp(404, Msg("not found", "Document", rq.body.docsId[k]))
        /\ Len(rq.log) = 2 * k - 1
        /\ \A id \in Later(rq, k) : Untouched(id, rq)
\* C3, amended: for a Remove whose store calls succeed, with ik the first id
\* that is not stored when its turn comes (never stored, or deleted as an
\* earlier element of the list): i1..i(k-1) are deleted, the call reports
\* "ik not found", no check or delete is issued for the positions after k,
\* and the documents named there and not among i1..i(k-1) stay unchanged.
C3_RemoveStopsAtFirstMissing ==
  \A r \in Slots :
    LET rq == reqs[r] IN
    \A k \in 1..MaxBatch :
      Done(rq, "removeDocuments") /\ AllOk(rq.log) /\ FirstMissingAtTurn(rq, k) =>
        /\ \A id \in Earlier(rq, k) : id \notin DOMAIN store
        /\ rq.resp = Resp(404, Msg("not found", "Document", rq.body.docsId[k]))
        /\ Len(rq.log) = 2 * k - 1
        /\ \A j \in 1..Len(rq.log) :
             rq.log[j].at = rq.body.docsId[(j + 1) \div 2]
        /\ \A id \in Later(rq, k) \ Earlier(rq, k) : Untouched(id, rq)
\* Remove [1, 0, 2] on a table holding 1 and 2 has answered: 1 is gone, 2 stays.
C3_Witness ==
  \E r \in Slots :
    /\ Done(reqs[r], "removeDocuments")
    /\ AllOk(reqs[r].log)
    /\ Len(reqs[r].body.docsId) = 3
    /\ FirstMissingAtTurn(reqs[r], 2)
    /\ reqs[r].body.docsId[1] \notin DOMAIN store
    /\ reqs[r].body.docsId[3] \in DOMAIN store


\* The columns an Update request writes.
Written(updates) == {fieldMapping(key) : key \in DOMAIN updates}
\* The row of id carries the field updates on top of what it held before.
UpdateApplied(id, rq) ==
  /\ id \in DOMAIN store
  /\ id \in DOMAIN rq.pre
  /\ \A key \in DOMAIN rq.body.updates : store[id][fieldMapping(key)] = rq.body.updates[key]
  /\ \A c \in Columns \ Written(rq.body.updates) : store[id][c] = rq.pre[id][c]
SameTable(id, rq) ==
  /\ id \in DOMAIN store <=> id \in DOMAIN rq.pre
  /\ id \in DOMAIN store => store[id] = rq.pre[id]

\* C4 as stated: for an Update with a non-empty field map (one that
\* updateDocumentsSchema admits) whose first
\* non-existent id is ik, the updates are applied to i1..i(k-1), the call
\* reports "ik not found", no check or update is issued after ik's check, and
\* i(k+1)..in are not modified.
C4_AsStated ==
  \A r \in Slots :
    LET rq == reqs[r] IN
    \A k \in 1..MaxBatch :
      Done(rq, "updateDocuments") /\ AllOk(rq.log) /\ FirstMissing(rq, k)
        /\ validate(rq.body) =>
        /\ \A id \in Earlier(rq, k) : UpdateApplied(id, rq)
        /\ rq.resp = Resp(404, Msg("not found", "Document", rq.body.docsId[k]))
        /\ Len(rq.log) = 2 * k - 1
        /\ \A id \in Later(rq, k) : SameTable(id, rq)
\* C4, amended: for an Update with a non-empty field map (one that
\* updateDocumentsSchema admits) whose store calls
\* succeed and whose first non-existent id is ik, the updates are applied to
\* i1..i(k-1), the call reports "ik not found", no check or update is issued
\* for the positions after k, and the documents named there and not among
\* i1..i(k-1) are not modified.
C4_UpdateStopsAtFirstMissing ==
  \A r \in Slots :
    LET rq == reqs[r] IN
    \A k \in 1..MaxBatch :
      Done(rq, "updateDocuments") /\ AllOk(rq.log) /\ FirstMissing(rq, k)
        /\ validate(rq.body) =>
        /\ \A id \in Earlier(rq, k) : UpdateApplied(id, rq)
        /\ rq.resp = Resp(404, Msg("not found", "Document", rq.body.docsId[k]))
        /\ Len(rq.log) = 2 * k - 1
        /\ \A j \in 1..Len(rq.log) :
             rq.log[j].at = rq.body.docsId[(j + 1) \div 2]
        /\ \A id \in Later(rq, k) \ Earlier(rq, k) : SameTable(id, rq)
\* Update [1, 0, 2] on a table holding 1 and 2 has answered.
C4_Witness ==
  \E r \in Slots :
    /\ Done(reqs[r], "updateDocuments")
    /\ AllOk(reqs[r].log)
    /\ reqs[r].body.docsId = <<1, 0, 2>>
    /\ reqs[r].body.updates = [status |-> Str("X")]
    /\ 2 \in DOMAIN store
    /\ store[1]["status"] = Str("X")

\* The draft an Add stored under the id it returned.
DraftOf(add, id) ==
  add.body.documents[CHOOSE n \in 1..Len(add.resp.ids) : add.resp.ids[n] = id]
\* Two values are the same up to the form of a date.
SameValue(v, w) == IF v.t = "date" \/ w.t = "date" THEN v.s = w.s ELSE v = w
\* The returned document equals the draft in every field but the generated
\* id and the creation time (up to the naming of the fields, an absent field
\* being the same as a null one).
EqualExceptIdAndCreation(row, draft) ==
  \A f \in DocFields \ {"idDocument", "createdAt"} :
    SameValue(row[ColumnOf(f)], Get(draft, f))
\* C5: a PointSearch on the id returned for D, right after the Add, returns
\* exactly one document, equal to D but for the id and the creation time.
C5_PointSearchReturnsDraft ==
  \A r \in Slots :
    LET rq == reqs[r] IN
    Done(rq, "searchDocument") /\ AllOk(rq.log) /\ rq.prev.body.op = "addDocument" =>
      /\ rq.resp.code = 200
      /\ Len(rq.resp.rows) = 1
      /\ EqualExceptIdAndCreation(rq.resp.rows[1], DraftOf(rq.prev, rq.body.idDocument))
\* The id Add returned for the first draft of the table was searched right
\* after the Add, the store answering, and one row came back.
C5_Witness ==
  \E r \in Slots :
    LET rq == reqs[r] IN
    /\ Done(rq, "searchDocument") /\ AllOk(rq.log)
    /\ rq.prev.body.op = "addDocument"
    /\ rq.resp.code = 200 /\ Len(rq.resp.rows) = 1
    /\ DraftOf(rq.prev, rq.body.idDocument) = DraftA

\* C9: a successful Update writes the named fields of the named documents
\* and leaves every other field of them and every other document unchanged.
C9_UpdateFrame ==
  \A r \in Slots :
    LET rq == reqs[r] IN
    Done(rq, "updateDocuments") /\ rq.resp.code = 200 =>
      /\ DOMAIN store = DOMAIN rq.pre
      /\ \A id \in DOMAIN store :
           IF id \in Range(rq.body.docsId)
           THEN UpdateApplied(id, rq)
           ELSE store[id] = rq.pre[id]
\* An Update of status on document 1, which had none, has succeeded and
\* another document is stored beside it.
C9_Witness ==
  \E r \in Slots :
    /\ Done(reqs[r], "updateDocuments")
    /\ reqs[r].resp.code = 200
    /\ reqs[r].body.docsId = <<1>>
    /\ reqs[r].pre[1]["status"] = Null
    /\ store[1]["status"] = Str("X")
    /\ 2 \in DOMAIN store

\* An Update with a non-empty list of stored ids and an empty field map.
EmptyUpdate(rq) ==
  /\ Done(rq, "updateDocuments")
  /\ rq.body.hasUpdates /\ DOMAIN rq.body.updates = {}
  /\ Len(rq.body.docsId) >= 1
  /\ Range(rq.body.docsId) \subseteq DOMAIN rq.pre
\* C10 as stated: such an Update is a successful no-op.
C10_AsStated ==
  \A r \in Slots :
    EmptyUpdate(reqs[r]) => reqs[r].resp.code = 200 /\ store = reqs[r].pre
\* C10, amended: such an Update is rejected by the validation middleware
\* with a 400 validation error; no store call is made and nothing changes.
C10_EmptyUpdateRejected ==
  \A r \in Slots :
    EmptyUpdate(reqs[r]) =>
      /\ reqs[r].resp = Resp(400, Msg("Validation error", "validate", 0))
      /\ reqs[r].log = <<>>
      /\ store = reqs[r].pre
\* An Update of the stored ids 1 and 2 with an empty field map was answered.
C10_Witness ==
  \E r \in Slots : EmptyUpdate(reqs[r]) /\ reqs[r].body.docsId = <<1, 2>>


\* The largest key of a table, 0 for the empty table.
LastKey(st) ==
  IF DOMAIN st = {} THEN 0 ELSE CHOOSE m \in DOMAIN st : \A k \in DOMAIN st : k <= m
\* The rows a single-value search is about, in the order the cluster pages them.
Matching(rq) ==
  SelectWhere(rq.pre, SearchColumn(rq.body.op), rq.body.value, LastKey(rq.pre))
\* A single-value search that was answered, its store call succeeding.
SinglePage(rq) ==
  /\ rq.pc = "done" /\ rq.body.op \in SearchOps
  /\ ~rq.body.hasValues /\ rq.body.value # Null
  /\ rq.log # <<>> /\ AllOk(rq.log)
\* The response carries rows from..from+p-1 of the matching rows, and a
\* cursor iff rows remain after them.
IsPage(rq, from) ==
  LET all == Matching(rq)
      upto == Min(from + FetchSizeOf(rq.body) - 1, Len(all))
  IN /\ rq.resp.code = 200
     /\ rq.resp.rows = SubSeq(all, from, upto)
     /\ rq.resp.cursor # <<>> <=> upto < Len(all)
\* The first call returns min(p, n) documents and a cursor iff n > p.
FirstPageRight ==
  \A r \in Slots :
    LET rq == reqs[r] IN
    SinglePage(rq) /\ rq.body.pageState = <<>> /\ Len(Matching(rq)) > 0 =>
      IsPage(rq, 1)
\* C6: in a single-value search with page size p over n matching documents
\* the first call returns min(p, n) documents and a cursor iff n > p, and
\* resubmitting the returned cursor as received yields the following page.
C6_CursorYieldsNextPage ==
  /\ FirstPageRight
  /\ \A r \in Slots :
       LET rq == reqs[r] IN
       SinglePage(rq) /\ rq.prev.body.op = rq.body.op /\ rq.prev.body.pageState = <<>> =>
         IsPage(rq, Len(rq.prev.resp.rows) + 1)
\* The cursor of the first page of 2 out of 5 documents was resubmitted for
\* the other 3, the cluster being available, and the request was answered.
C6_Witness ==
  \E r \in Slots :
    LET rq == reqs[r] IN
    /\ SinglePage(rq) /\ rq.prev.body.op = rq.body.op
    /\ Len(Matching(rq)) = 5
    /\ Len(rq.prev.resp.rows) = 2
    /\ rq.body.pageSize = 3
    /\ rq.body.pageState = rq.prev.resp.cursor

\* The stored rows whose lookup column holds values[k], in the cluster's order.
RowsOfValue(rq, k) ==
  SelectWhere(rq.pre, SearchColumn(rq.body.op), rq.body.values[k], LastKey(rq.pre))
\* A search with a value list that was answered, every query succeeding.
BatchDone(rq) ==
  /\ rq.pc = "done" /\ rq.body.op \in SearchOps
  /\ rq.body.hasValues
  /\ rq.log # <<>> /\ AllOk(rq.log)
\* C7: with a value list [v1..vk], whatever the order the queries complete
\* in, the response lists the rows of v1, then those of v2, ... then those of
\* vk, and carries no cursor, whatever pageSize or pageState was supplied.
C7_BatchKeepsValueOrder ==
  \A r \in Slots :
    LET rq == reqs[r]
        expected == Flatten([k \in 1..Len(rq.body.values) |-> RowsOfValue(rq, k)])
    IN BatchDone(rq) =>
         /\ rq.resp.cursor = <<>>
         /\ rq.resp.pageSize = 0
         /\ IF Len(expected) = 0 THEN rq.resp.code = 404
            ELSE rq.resp.code = 200 /\ rq.resp.rows = expected
\* A search for [A, B], A matching two documents and B one, with a page size
\* and a cursor supplied, was answered after B's query completed before A's.
C7_Witness ==
  \E r \in Slots :
    LET rq == reqs[r] IN
    /\ BatchDone(rq)
    /\ rq.body.values = <<Str("A"), Str("B")>>
    /\ rq.body.pageSize = 1 /\ rq.body.pageState # <<>>
    /\ rq.order = <<2, 1>>
    /\ Len(RowsOfValue(rq, 1)) = 2 /\ Len(RowsOfValue(rq, 2)) = 1
    /\ Len(rq.resp.rows) = 3

\* Every stored document whose lookup column equals one of the values is in
\* the response.
UnionReturned(rq) ==
  \A id \in DOMAIN rq.pre :
    rq.pre[id][SearchColumn(rq.body.op)] \in Range(rq.body.values) =>
      rq.resp.code = 200 /\ rq.pre[id] \in Range(rq.resp.rows)
\* C8 as stated: a search with a value list returns every matching document,
\* however many documents match a single value.
C8_AsStated ==
  \A r \in Slots : BatchDone(reqs[r]) => UnionReturned(reqs[r])
\* C8, amended: a search with a value list returns every matching document
\* provided no value matches more documents than one query fetches (1000);
\* of a value matching more, the first 1000 rows are returned.
C8_BatchReturnsUnionUpToFetchSize ==
  \A r \in Slots :
    LET rq == reqs[r] IN
    BatchDone(rq) =>
      /\ (\A k \in 1..Len(rq.body.values) : Len(RowsOfValue(rq, k)) <= BatchFetchSize)
           => UnionReturned(rq)
      /\ rq.resp.rows =
           Flatten([k \in 1..Len(rq.body.values) |->
                      SubSeq(RowsOfValue(rq, k), 1, Min(BatchFetchSize, Len(RowsOfValue(rq, k))))])
\* A search for [B, A] over a table where A matches exactly as many documents
\* as one query fetches returned all of them and B's one.
C8_Witness ==
  \E r \in Slots :
    LET rq == reqs[r] IN
    /\ BatchDone(rq)
    /\ rq.body.values = <<Str("B"), Str("A")>>
    /\ Len(RowsOfValue(rq, 2)) = BatchFetchSize
    /\ Len(rq.resp.rows) = BatchFetchSize + 1


\* C11: the idDocument of every stored document is the id assigned to it at
\* insert, the key it is stored, looked up, updated and deleted under; no
\* request changes it.
C11_IdDocumentImmutable ==
  /\ \A id \in DOMAIN store : store[id]["id_document"] = UuidText(id)
  /\ \A r \in Slots :
       \A id \in DOMAIN reqs[r].pre \cap DOMAIN store :
         store[id]["id_document"] = reqs[r].pre[id]["id_document"]
\* An Update of documents 1 and 2 succeeded on a table that an Add and
\* nothing else had filled, and both are still stored.
C11_Witness ==
  \E r \in Slots :
    /\ Done(reqs[r], "updateDocuments")
    /\ reqs[r].resp.code = 200
    /\ reqs[r].body.docsId = <<2, 1>>
    /\ {1, 2} \subseteq DOMAIN store
    /\ store[2] # reqs[r].pre[2]

\* The creation time insertDocument sets for the n-th insert.
ServerDate(n) == [t |-> "date", s |-> ToString(n), a |-> <<>>]
\* C12: every insert assigns a fresh server-generated id and creation time,
\* whatever idDocument/createdAt the draft carries; the ids an Add creates
\* are pairwise distinct and none was stored before; an Add never overwrites
\* or modifies a document stored before it, also one of the same asset or
\* transaction hash.
C12_InsertAssignsFreshId ==
  \A r \in Slots :
    LET rq == reqs[r]
        ids == rq.createdDocIds
    IN rq.body.op = "addDocument" =>
         /\ \A m, n \in 1..Len(ids) : ids[m] = ids[n] => m = n
         /\ \A n \in 1..Len(ids) : ids[n] \notin DOMAIN rq.pre
         /\ \A n \in 1..Len(ids) :
              ids[n] \in DOMAIN store =>
                /\ store[ids[n]]["id_document"] = UuidText(ids[n])
                /\ store[ids[n]]["created_at"] = ServerDate(ids[n])
         /\ \A id \in DOMAIN rq.pre : id \in DOMAIN store /\ store[id] = rq.pre[id]
         /\ rq.pc = "done" /\ rq.resp.code = 200 =>
              /\ rq.resp.ids = ids
              /\ Len(ids) = Len(rq.body.documents)
              /\ \A n \in 1..Len(ids) : ids[n] \in DOMAIN store
\* An Add of a draft carrying its own idDocument and createdAt, then one of
\* asset A, succeeded on a table that already held documents of assets A and B.
C12_Witness ==
  \E r \in Slots :
    LET rq == reqs[r] IN
    /\ Done(rq, "addDocument") /\ rq.resp.code = 200
    /\ rq.body.documents = <<DraftB, DraftA>>
    /\ Has(DraftB, "idDocument") /\ Has(DraftB, "createdAt")
    /\ \E id \in DOMAIN rq.pre : rq.pre[id]["id_asset"] = Str("A")
    /\ \E id \in DOMAIN rq.pre : rq.pre[id]["id_asset"] = Str("B")


\* An Update naming a field outside the allow-list, with stored ids.
NamesOtherField(rq) ==
  /\ Done(rq, "updateDocuments")
  /\ rq.body.hasUpdates
  /\ ~(DOMAIN rq.body.updates \subseteq
         {"txHash", "blockNumber", "status", "txStatus", "amount", "idLocal", "dataHash"})
\* C13: only the fields txHash, blockNumber, status, txStatus, amount,
\* idLocal and dataHash of a stored document ever differ from what they were
\* before a request; an Update naming any other field is answered with a
\* validation error and issues no store call.
C13_OnlyAllowListMutable ==
  \A r \in Slots :
    LET rq == reqs[r] IN
    /\ \A id \in DOMAIN rq.pre \cap DOMAIN store :
         \A c \in Columns \ {"tx_hash", "block_number", "status", "tx_status",
                             "amount", "id_local", "data_hash"} :
           store[id][c] = rq.pre[id][c]
    /\ NamesOtherField(rq) =>
         /\ rq.resp = Resp(400, Msg("Validation error", "validate", 0))
         /\ rq.log = <<>>
         /\ store = rq.pre
\* An Update of a stored document naming owner, and one naming status
\* together with the column id_asset, were answered.
C13_Witness ==
  \E r \in Slots :
    LET rq == reqs[r] IN
    /\ NamesOtherField(rq)
    /\ rq.body.docsId = <<1>> /\ 1 \in DOMAIN rq.pre
    /\ "id_asset" \in DOMAIN rq.body.updates


\* What the gateway returned to the controller for an answered search whose
\* queries the cluster served: the rows and the continuation token.
GatewayRows(rq) ==
  IF rq.body.hasValues
  THEN Flatten([k \in 1..Len(rq.body.values) |->
                  SubSeq(RowsOfValue(rq, k), 1, Min(BatchFetchSize, Len(RowsOfValue(rq, k))))])
  ELSE LET from == IF rq.body.pageState = <<>> THEN 0 ELSE ResumeAt(rq.body)
       IN SubSeq(Matching(rq), from + 1, Min(from + FetchSizeOf(rq.body), Len(Matching(rq))))
GatewayHasToken(rq) ==
  /\ ~rq.body.hasValues
  /\ (IF rq.body.pageState = <<>> THEN 0 ELSE ResumeAt(rq.body)) + FetchSizeOf(rq.body)
       < Len(Matching(rq))
\* A search, by one value or by a list, for which the gateway returned.
GatewayReturned(rq) ==
  /\ rq.pc = "done" /\ rq.body.op \in SearchOps
  /\ rq.log # <<>> /\ AllOk(rq.log)
  /\ rq.resp.code # 500
\* C14: in a search by one value or by a value list the response is the 404
\* 'No documents found' iff the gateway returned no row; otherwise it is a
\* 200 whose count is the number of documents returned, and it carries the
\* pagination member iff the gateway returned a continuation token.
C14_NotFoundIffNoRows ==
  \A r \in Slots :
    LET rq == reqs[r] IN
    GatewayReturned(rq) =>
      /\ rq.resp.code = 404 <=> Len(GatewayRows(rq)) = 0
      /\ rq.resp.code = 404 => rq.resp = Resp(404, Msg("No documents found", rq.body.op, 0))
      /\ rq.resp.code # 404 =>
           /\ rq.resp.code = 200
           /\ rq.resp.rows = GatewayRows(rq)
           /\ rq.resp.count = Len(rq.resp.rows)
           /\ rq.resp.cursor # <<>> <=> GatewayHasToken(rq)
           /\ rq.resp.pageSize # 0 <=> GatewayHasToken(rq)
\* A search by one value with page size 2 over 3 matching documents was
\* answered with 2 documents and the pagination member.
C14_Witness ==
  \E r \in Slots :
    LET rq == reqs[r] IN
    /\ GatewayReturned(rq) /\ ~rq.body.hasValues
    /\ rq.body.pageSize = 2 /\ Len(Matching(rq)) = 3
    /\ rq.resp.count = 2 /\ rq.resp.cursor # <<>>
\* A search by a value list that matches nothing was answered.
C14_WitnessEmpty ==
  \E r \in Slots :
    LET rq == reqs[r] IN
    /\ GatewayReturned(rq) /\ rq.body.hasValues
    /\ Len(GatewayRows(rq)) = 0 /\ DOMAIN rq.pre # {}


\* Every client.connect() so far was rejected with no-host-available.
AllNoHost(p) == \A j \in 1..Len(p.failures) : p.failures[j] = "NoHostAvailableError"
\* The attempts after the first one.
Retries(p) == IF p.attempts = 0 THEN 0 ELSE p.attempts - 1
\* The delay was waited once between any two consecutive attempts.
DelayedBetweenAttempts(p) ==
  p.clock = RetryDelay * (IF p.pc = "connect" THEN p.attempts ELSE Retries(p))
ConnectBounded ==
  /\ Retries(proc) <= 10
  /\ DelayedBetweenAttempts(proc)
  /\ proc.conn = "raised" /\ AllNoHost(proc) =>
       /\ proc.attempts = 10 /\ Retries(proc) = 9
       /\ proc.error = "NoHostAvailableError"
       /\ proc.pc = "exited"
\* C15: when every attempt fails with no-host-available, a Connect call that
\* starts with tries = 0 retries (9 times, 10 attempts in all, never more than
\* 10 retries), waits the fixed delay between consecutive attempts, and then
\* raises the connection error; the call ends in every case, connected or
\* raised.
C15_ConnectRetriesThenRaises ==
  /\ []ConnectBounded
  /\ <>(proc.conn \in {"connected", "raised"})
\* Ten attempts were all rejected with no-host-available and the call raised.
C15_Witness ==
  /\ proc.conn = "raised"
  /\ AllNoHost(proc)
  /\ Len(proc.failures) = 10
  /\ proc.clock = 9 * RetryDelay

\* C16: a connection attempt that fails with any other error makes Connect
\* raise that error at once: no attempt follows it and tries is not
\* incremented for it.
C16_OtherErrorRaisesAtOnce ==
  \A j \in 1..Len(proc.failures) :
    proc.failures[j] = "Error" =>
      /\ j = Len(proc.failures) /\ proc.attempts = j
      /\ proc.conn = "raised" /\ proc.error = "Error"
      /\ proc.pc = "exited"
      /\ proc.tries = j - 1
      /\ proc.clock = RetryDelay * (j - 1)
\* The third attempt failed with another error after two no-host-available.
C16_Witness ==
  /\ Len(proc.failures) = 3
  /\ proc.failures[3] = "Error"
  /\ proc.tries = 2


\* q is an initial part of the sequence w.
IsPrefix(q, w) == Len(q) <= Len(w) /\ \A j \in 1..Len(q) : q[j] = w[j]
\* C17: the server listens only after connect, keyspace creation, (user
\* creation,) table creation and index creation have succeeded, in that
\* order; when one of them fails, connect after its retries included, the
\* process exits with code 1; a request is only ever served by a listening
\* process.
C17_ListenOnlyAfterSetup ==
  /\ IsPrefix(proc.steps, SetupSteps)
  /\ proc.pc \in {"listen", "listening"} =>
       proc.steps = <<"connect", "keyspace", "user", "table", "indexes">> /\ proc.error = ""
  /\ proc.error # "" \/ proc.conn = "raised" =>
       /\ proc.pc = "exited" /\ proc.code = 1
       /\ proc.steps # SetupSteps
  /\ proc.pc # "listening" => \A r \in Slots : reqs[r] = NoReq
\* The server connected at the third attempt, set the database up, listens
\* and has answered a request.
C17_Witness ==
  /\ proc.pc = "listening"
  /\ proc.attempts = 3
  /\ \E r \in Slots : reqs[r].pc = "done"
\* Index creation failed after the table was created: the process exited.
C17_WitnessExit ==
  /\ proc.pc = "exited" /\ proc.code = 1
  /\ proc.steps = <<"connect", "keyspace", "user", "table">>


\* C18: a request that fails validation (a missing or empty document or id
\* list, a document without a required field, more than 50 search values,
\* neither a value nor a value list) is answered with the validation error
\* and causes no store read or write.
C18_InvalidRequestTouchesNothing ==
  \A r \in Slots :
    LET rq == reqs[r] IN
    rq.body \in MalformedBodies /\ rq.pc # "pending" =>
      /\ rq.pc = "done"
      /\ rq.resp = Resp(400, Msg("Validation error", "validate", 0))
      /\ rq.log = <<>>
      /\ store = rq.pre
\* An Add whose second document lacks owner was answered on a table that
\* holds documents.
C18_Witness ==
  \E r \in Slots :
    LET rq == reqs[r] IN
    /\ Done(rq, "addDocument")
    /\ rq.body.documents = <<DraftA, DraftNoOwner>>
    /\ DOMAIN rq.pre # {}
\* A search with 51 values was answered.
C18_WitnessTooMany ==
  \E r \in Slots :
    reqs[r].pc = "done" /\ Len(reqs[r].body.values) = 51

\* C19: the Field Mapper is idempotent.  Whenever prepareDocumentForCassandra
\* has been applied twice in a row to a document (whose list fields hold an
\* array, JSON text of an array, text that is no JSON, a scalar or null, and
\* whose data is an object, an array or a string), the second application
\* returned exactly the document the first one returned.
C19_FieldMapperIdempotent ==
  \A n \in 1..(Len(mapper.ops) - 1) :
    /\ mapper.ops[n] = "prepareDocumentForCassandra"
    /\ mapper.ops[n + 1] = "prepareDocumentForCassandra"
    => mapper.vals[n + 1] = mapper.vals[n]
\* The mapper ran twice on a document it had to change the first time: JSON
\* text of an array in groupedBy, an array in data.
C19_Witness ==
  /\ mapper.ops = <<"prepareDocumentForCassandra", "prepareDocumentForCassandra">>
  /\ Has(mapper.doc, "groupedBy")
  /\ mapper.doc["groupedBy"] = JSONstringify(Arr(<<Str("g1"), Str("g2")>>))
  /\ IsArray(mapper.doc["data"])
  /\ mapper.vals[1]["groupedBy"] = Arr(<<Str("g1"), Str("g2")>>)
  /\ mapper.vals[1]["data"] # mapper.doc["data"]

\* C20: on the insert path (treatDocument, then prepareDocumentForCassandra)
\* a list field given as an array of strings is written with the same
\* elements in the same order, and a list field the draft does not have is
\* written as null.
StringArray(v) == IsArray(v) /\ \A n \in 1..Len(v.a) : v.a[n].t = "string"
C20_InsertPathKeepsLists ==
  /\ Len(mapper.ops) >= 2
  /\ mapper.ops[1] = "treatDocument"
  /\ mapper.ops[2] = "prepareDocumentForCassandra"
  => \A f \in Range(ListFields) :
       /\ Has(mapper.doc, f) /\ StringArray(mapper.doc[f]) => mapper.vals[2][f] = mapper.doc[f]
       /\ ~Has(mapper.doc, f) => mapper.vals[2][f] = Null
\* A draft with groupedBy = ["g2", "g1"] and no idExternal went through both
\* conversions; in between, groupedBy was JSON text.
C20_Witness ==
  /\ mapper.ops = <<"treatDocument", "prepareDocumentForCassandra">>
  /\ Has(mapper.doc, "groupedBy")
  /\ mapper.doc["groupedBy"] = Arr(<<Str("g2"), Str("g1")>>)
  /\ ~Has(mapper.doc, "idExternal")
  /\ mapper.vals[1]["groupedBy"].t = "jsonstring"
  /\ mapper.vals[2]["groupedBy"] = Arr(<<Str("g2"), Str("g1")>>)

\* C21: within one Add the inserts are issued one at a time in input order:
\* the m-th store call of the request, as long as no insert has failed, is
\* the insert of document m, so the insert of document k+1 comes only after
\* the insert of document k has succeeded; and a successful Add returns one
\* id per document, the n-th id being the key under which the n-th document
\* was written.
InsertsOf(rq) == CallsOf(rq.log, "insert")
C21_InsertsInInputOrder ==
  \A r \in Slots :
    LET rq == reqs[r]
        inserts == InsertsOf(rq)
    IN rq.body.op = "addDocument" =>
         /\ \A m \in 1..Len(inserts) :
              /\ inserts[m].at = m
              /\ rq.log[m] = inserts[m]
              /\ m < Len(inserts) => inserts[m].ok
         /\ rq.pc = "insert" => rq.i = Len(inserts) + 1 /\ AllOk(rq.log)
         /\ rq.pc = "done" /\ rq.resp.code = 200 =>
              /\ Len(rq.resp.ids) = Len(rq.body.documents)
              /\ Len(inserts) = Len(rq.body.documents)
              /\ \A n \in 1..Len(rq.resp.ids) :
                   LET id == rq.resp.ids[n] IN
                   /\ id \notin DOMAIN rq.pre
                   /\ id \in DOMAIN store
                   /\ store[id] = RowOf(InsertedDoc(treatDocument(rq.body.documents[n]), id))
\* An Add of DraftA, DraftB, DraftA succeeded: three ids for three documents.
C21_Witness ==
  \E r \in Slots :
    /\ Done(reqs[r], "addDocument")
    /\ reqs[r].resp.code = 200
    /\ reqs[r].body.documents = <<DraftA, DraftB, DraftA>>
    /\ Len(reqs[r].resp.ids) = 3
    /\ store[reqs[r].resp.ids[2]]["id_asset"] = Str("B")

\* C22: a batch request (Add, Remove, Update) goes from pending through its
\* list in index order to one terminal state, with one response:
\*  - it has a response exactly when it is done, 200 (completed) or an error
\*    naming where it failed;
\*  - its store calls follow the list: check and mutation of id 1, of id 2,
\*    ... for Remove and Update, insert 1, insert 2, ... for Add;
\*  - no store call follows a failed one, except the rollback deletes of an
\*    Add, which follow a failed insert and name the ids created before it;
\*  - once done, the request, its response and its log never change (the
\*    slot can only take a new request), and the index only moves up by one
\*    within a phase.
BatchOps == {"addDocument", "removeDocuments", "updateDocuments"}
Mutation(op) == IF op = "removeDocuments" THEN "delete" ELSE "update"
CallsFollowList(rq) ==
  IF rq.body.op = "addDocument"
  THEN LET n == Len(InsertsOf(rq)) IN
       /\ \A m \in 1..Len(rq.log) :
            IF m <= n
            THEN rq.log[m].stmt = "insert" /\ rq.log[m].at = m /\ (m < n => rq.log[m].ok)
            ELSE /\ rq.log[m].stmt = "delete"
                 /\ ~rq.log[n].ok
                 /\ rq.log[m].at = rq.createdDocIds[m - n]
       /\ Len(rq.createdDocIds) = Cardinality({m \in 1..n : rq.log[m].ok})
  ELSE \A m \in 1..Len(rq.log) :
         /\ rq.log[m].at = rq.body.docsId[(m + 1) \div 2]
         /\ rq.log[m].stmt = IF m % 2 = 1 THEN "select" ELSE Mutation(rq.body.op)
         /\ m < Len(rq.log) => rq.log[m].ok
OneTerminalState(rq) ==
  /\ rq.pc \in {"pending", "insert", "rollback", "check", "mutate", "done"}
  /\ rq.pc = "done" <=> rq.resp.code # 0
  /\ rq.pc = "done" => rq.resp.code \in {200, 400, 404, 500}
  /\ rq.pc = "done" /\ rq.resp.code = 200 => AllOk(rq.log)
  /\ rq.pc = "done" /\ ~AllOk(rq.log) => rq.resp.code = 500
BatchStep(rq, next) ==
  /\ rq.pc = "done" => next = rq \/ (next.pc = "pending" /\ next.log = <<>>)
  /\ rq.pc = "pending" /\ next.pc \notin {"pending", "done"} => next.i = 1 /\ next.log = <<>>
  /\ rq.pc \in {"insert", "check", "mutate"} /\ next.pc \in {"insert", "check", "mutate"} =>
       /\ next.i \in {rq.i, rq.i + 1}
       /\ next.body = rq.body
  /\ rq.pc = "rollback" => next.pc \in {"rollback", "done"} /\ next.i \in {rq.i, rq.i + 1}
C22_BatchStateMachine ==
  /\ [](\A r \in Slots :
          reqs[r].body.op \in BatchOps => OneTerminalState(reqs[r]) /\ CallsFollowList(reqs[r]))
  /\ [][\A r \in Slots : reqs[r].body.op \in BatchOps => BatchStep(reqs[r], reqs'[r])]_vars
\* A Remove of three ids failed at its second id (the delete was refused)
\* and has answered 500 after four store calls.
C22_Witness ==
  \E r \in Slots :
    /\ Done(reqs[r], "removeDocuments")
    /\ Len(reqs[r].body.docsId) = 3
    /\ reqs[r].resp.code = 500
    /\ Len(reqs[r].log) = 4
    /\ ~reqs[r].log[4].ok
\* An Add whose third insert failed has rolled back and answered.
C22_WitnessRollback ==
  \E r \in Slots :
    /\ Done(reqs[r], "addDocument")
    /\ FailedInsert(reqs[r]) = 3
    /\ Len(reqs[r].log) = 5

\* C23: Add is not atomic.  After an Add has reported its failure, a document
\* it inserted is still stored exactly when the rollback delete of its id
\* failed (as long as no other request has written or deleted under that
\* id); such a state is reachable, together with a concurrent point search
\* that was answered with a document of the batch before the batch failed.
OthersLeft(r, id) ==
  \A o \in Slots \ {r} :
    \A c \in Range(reqs[o].log) : c.at = id => c.stmt = "select"
RollbackFailedFor(rq, id) ==
  \E c \in Range(rq.log) : c.stmt = "delete" /\ c.at = id /\ ~c.ok
C23_AddNotAtomic ==
  \A r \in Slots :
    LET rq == reqs[r] IN
    Done(rq, "addDocument") /\ rq.resp.code = 500 =>
      \A id \in Range(rq.createdDocIds) :
        OthersLeft(r, id) => (id \in DOMAIN store <=> RollbackFailedFor(rq, id))
\* An Add of two documents failed at the second and answered 500; the
\* rollback delete of the first failed, so the first is still stored; a
\* point search in the other slot had been answered with that document.
C23_Witness ==
  \E r, o \in Slots :
    /\ Done(reqs[r], "addDocument") /\ reqs[r].resp.code = 500
    /\ Len(reqs[r].createdDocIds) = 1
    /\ reqs[r].createdDocIds[1] \in DOMAIN store
    /\ RollbackFailedFor(reqs[r], reqs[r].createdDocIds[1])
    /\ Done(reqs[o], "searchDocument") /\ reqs[o].resp.code = 200
    /\ reqs[o].body.idDocument = reqs[r].createdDocIds[1]
    /\ reqs[o].resp.rows = <<store[reqs[r].createdDocIds[1]]>>

\* C24: updateDocument(id, updates) with an empty updates returns without
\* issuing a statement; with a non-empty updates it issues exactly one
\* UPDATE with no condition, keyed by id, whose SET clause has one assignment
\* per key of updates, in key order, the name translated through the fixed
\* table and any other key passed through unchanged.
FixedTable(key) ==
  CASE key = "txHash" -> "tx_hash"
    [] key = "blockNumber" -> "block_number"
    [] key = "status" -> "status"
    [] key = "txStatus" -> "tx_status"
    [] key = "amount" -> "amount"
    [] key = "idLocal" -> "id_local"
    [] key = "dataHash" -> "data_hash"
    [] OTHER -> key
StatementAsClaimed(g) ==
  /\ Len(g.issued) = 1
  /\ g.issued[1].stmt = "UPDATE"
  /\ g.issued[1].ifClause = ""
  /\ g.issued[1].where = <<"id_document">>
  /\ g.issued[1].values[Len(g.entries) + 1] = UuidText(g.id)
  /\ Len(g.issued[1].set) = Len(g.entries)
  /\ \A n \in 1..Len(g.entries) :
       /\ g.issued[1].set[n] = FixedTable(g.entries[n].key)
       /\ g.issued[1].values[n] = g.entries[n].value
C24_UpdateStatement ==
  gateway.pc \in {"returned", "thrown"} =>
    IF Len(gateway.entries) = 0
    THEN gateway.pc = "returned" /\ gateway.issued = <<>>
    ELSE StatementAsClaimed(gateway)
\* The same for the calls whose keys are not names every object inherits.
C24_OwnKeysOnly ==
  (\A n \in 1..Len(gateway.entries) : gateway.entries[n].key \notin InheritedKeys)
    => C24_UpdateStatement
\* updateDocument(1, {status, constructor}) has issued its statement.
C24_Witness ==
  /\ gateway.pc = "returned"
  /\ gateway.id = 1
  /\ Len(gateway.entries) = 2
  /\ gateway.entries[1].key = "status"
  /\ gateway.entries[2].key = "constructor"
  /\ gateway.issued[1].set[1] = "status"
  /\ gateway.issued[1].set[2] # "constructor"

\* C25: for every call of the Field Mapper, with `given` the document it is
\* called with and `made` the document it returns:
\*  - a null list field stays null; a non-null one becomes an array of
\*    strings and nothing is thrown: JSON text of an array becomes that
\*    array, text that does not parse becomes the one-element array of the
\*    raw text, an array keeps its length and its string elements, any other
\*    value becomes a one-element array (an element that is no string is
\*    replaced by its String() form);
\*  - data that is an object or an array is written as its JSON text, data
\*    that is a string is kept;
\*  - every other field is unchanged, no field is added or dropped, and the
\*    object the mapper was called with is as it was.
Given(n) == IF n = 1 THEN mapper.doc ELSE mapper.vals[n - 1]
AllStrings(v) == IsArray(v) /\ \A n \in 1..Len(v.a) : v.a[n].t \in {"string", "jsonstring"}
KeepsStrings(from, to) ==
  /\ Len(to.a) = Len(from.a)
  /\ \A n \in 1..Len(from.a) : IsString(from.a[n]) => to.a[n] = from.a[n]
ParsesAsArray(v) ==
  /\ v.t = "jsonstring"
  /\ WellFormed(v.a)
  /\ v.a[1] = Punct("[")
ListMapped(given, made) ==
  IF given.t = "null" THEN made = Null
  ELSE /\ AllStrings(made)
       /\ ParsesAsArray(given) => KeepsStrings(JSONparse(given), made)
       /\ IsString(given) /\ JSONparseThrows(given) => made = Arr(<<given>>)
       /\ IsArray(given) => KeepsStrings(given, made)
       /\ ~IsArray(given) /\ ~IsString(given) => Len(made.a) = 1
DataMapped(given, made) ==
  /\ given.t \in {"object", "array"} => made = JSONstringify(given) /\ made.t = "jsonstring"
  /\ IsString(given) => made = given
C25_WitnessCoerced ==
  /\ mapper.ops = <<"prepareDocumentForCassandra">>
  /\ Has(mapper.doc, "groupedBy")
  /\ mapper.doc["groupedBy"] = JSONstringify(Arr(<<Num("5"), Str("g1")>>))
  /\ mapper.vals[1]["groupedBy"] = Arr(<<Str("5"), Str("g1")>>)

\* C26: each Connect call has its own retry budget: a call that raises
\* because every one of its attempts found no host has made the same number
\* of attempts (ten) whatever other calls of the process counted.
C26_OwnRetryBudget ==
  \A c \in CallIds :
    calls[c].pc = "raised" /\ calls[c].error = "NoHostAvailableError" =>
      calls[c].attempts = MaxTries
\* One call raised after ten attempts; the other, made in the same process,
\* raised after its first.
C26_Witness ==
  /\ calls["c1"].pc = "raised" /\ calls["c1"].attempts = MaxTries
  /\ calls["c2"].pc = "raised" /\ calls["c2"].attempts = 1
  /\ calls["c2"].error = "NoHostAvailableError"

\* C27: Update never creates a record.  Under every interleaving of
\* concurrent Add, Update and Remove requests, each record in the store was
\* written by an insert (outside the updatable columns it is the row the
\* insert of some draft wrote under that key) and carries every required
\* document field.
UpdatableColumns == {fieldMapping(key) : key \in UpdatableKeys}
WrittenByInsert(k) ==
  \E d \in Drafts :
    \A c \in Columns \ UpdatableColumns :
      store[k][c] = RowOf(InsertedDoc(treatDocument(d), k))[c]
C27_UpdateNeverCreates ==
  \A k \in DOMAIN store :
    /\ WrittenByInsert(k)
    /\ \A f \in RequiredFields : store[k][ColumnOf(f)] # Null
\* A Remove and an Update of document 1 have both answered 200, and the
\* store holds a record under key 1 that has a status and no asset id.
C27_Witness ==
  \E r, o \in Slots :
    /\ Done(reqs[r], "removeDocuments") /\ reqs[r].resp.code = 200
    /\ Done(reqs[o], "updateDocuments") /\ reqs[o].resp.code = 200
    /\ reqs[r].body.docsId = <<1>> /\ reqs[o].body.docsId = <<1>>
    /\ 1 \in DOMAIN store
    /\ store[1]["status"] = Str("X")
    /\ store[1]["id_asset"] = Null

\* C28: a Remove that reports success with removedDocuments = n has removed
\* n stored documents: its ids are n different ones, and no other Remove
\* reports success for one of them.
C28_RemoveCountsRemoved ==
  \A r \in Slots :
    LET rq == reqs[r] IN
    Done(rq, "removeDocuments") /\ rq.resp.code = 200 =>
      /\ rq.resp.count = Cardinality(Range(rq.body.docsId))
      /\ \A o \in Slots \ {r} :
           Done(reqs[o], "removeDocuments") /\ reqs[o].resp.code = 200 =>
             Range(rq.body.docsId) \cap Range(reqs[o].body.docsId) = {}
\* Two Removes of document 1 have both answered 200 with removedDocuments 1.
C28_Witness ==
  /\ \A r \in Slots :
       /\ Done(reqs[r], "removeDocuments")
       /\ reqs[r].body.docsId = <<1>>
       /\ reqs[r].resp.code = 200 /\ reqs[r].resp.count = 1
  /\ AllOk(reqs["r1"].log) /\ AllOk(reqs["r2"].log)
\* The rollback deletes of a request, in the order they were issued.
RollbackDeletes(rq) == CallsOf(rq.log, "delete")

\* C29: with one request at a time and no failing rollback delete, an Add
\* that answers with a failure leaves the table exactly as it was when the
\* request arrived, and each rollback delete names an id this request
\* created, never a key the table held before.
C29_FailedAddRestoresStore ==
  \A r \in Slots :
    LET rq == reqs[r] IN
    Done(rq, "addDocument") /\ rq.resp.code # 200 /\ AllOk(RollbackDeletes(rq)) =>
      /\ store = rq.pre
      /\ \A m \in 1..Len(RollbackDeletes(rq)) :
           /\ RollbackDeletes(rq)[m].at \in Range(rq.createdDocIds)
           /\ RollbackDeletes(rq)[m].at \notin DOMAIN rq.pre
\* An Add into a table that holds documents failed at its third document and
\* both rollback deletes succeeded.
C29_Witness ==
  \E r \in Slots :
    LET rq == reqs[r] IN
    /\ Done(rq, "addDocument")
    /\ rq.resp.code = 500
    /\ FailedInsert(rq) = 3
    /\ Len(RollbackDeletes(rq)) = 2
    /\ AllOk(RollbackDeletes(rq))
    /\ DOMAIN rq.pre # {}
    /\ store = rq.pre

\* The keys of the documents that were added with the given asset identifier.
AddedWithAsset(st, x) == {k \in DOMAIN st : st[k][ColumnOf("idAsset")] = x}
\* A first-page search by asset id that was answered, its query succeeding.
AssetSearch(rq) ==
  /\ SinglePage(rq) /\ rq.body.op = "searchByAssetId"
  /\ rq.body.pageState = <<>>

\* C30: a search by asset id for X returns every document that was added
\* with the required asset identifier idAsset = X, as far as the page holds
\* them all.
C30_AssetSearchFindsAdded ==
  \A r \in Slots :
    LET rq == reqs[r]
        added == AddedWithAsset(rq.pre, rq.body.value)
    IN AssetSearch(rq) /\ Cardinality(added) <= FetchSizeOf(rq.body) =>
         \A k \in added :
           /\ rq.resp.code = 200
           /\ \E n \in 1..Len(rq.resp.rows) : rq.resp.rows[n] = rq.pre[k]
\* A search by asset id was answered "not found" although the table holds a
\* document that was added with that asset identifier.
C30_Witness ==
  \E r \in Slots :
    LET rq == reqs[r] IN
    /\ AssetSearch(rq)
    /\ AddedWithAsset(rq.pre, rq.body.value) # {}
    /\ rq.resp.code = 404

====
